---------------------------- MODULE Spec2Model ----------------------------
(***************************************************************************)
(* A model of the terminaux-parser ANSI/VT byte parser (src/src/parser.rs, *)
(* src/src/tables.rs, src/src/definitions.rs).                             *)
(*                                                                         *)
(* Bytes are integers 0..255, byte strings are sequences of bytes.  The    *)
(* parser is a record holding the fields of struct AnsiParser; Option<T>   *)
(* is a sequence of length 0 (None) or 1 (Some).  Events (TerminalOutput)  *)
(* are records with a "type" field.                                        *)
(***************************************************************************)
EXTENDS Integers, Sequences, FiniteSets, TLC

(***************************************************************************)
(* enum State (tables.rs), repr(u8)                                        *)
(***************************************************************************)
Ground == 0
Escape == 1
EscapeIntermediate == 2
CsiEntry == 3
CsiParam == 4
CsiIntermediate == 5
CsiIgnore == 6
DcsEntry == 7
DcsParam == 8
DcsIntermediate == 9
DcsPassthrough == 10
DcsIgnore == 11
OscString == 12
SosPmApcString == 13

States == Ground..SosPmApcString

(***************************************************************************)
(* enum Action (tables.rs), repr(u8)                                       *)
(***************************************************************************)
ActNone == 0
ActIgnore == 1
ActPrint == 2
ActExecute == 3
ActClear == 4
ActCollect == 5
ActParam == 6
ActEscDispatch == 7
ActCsiDispatch == 8
ActHook == 9
ActPut == 10
ActUnhook == 11
ActOscStart == 12
ActOscPut == 13
ActOscEnd == 14

Actions == ActNone..ActOscEnd

(***************************************************************************)
(* pack: ((state as u8) << 4) | (action as u8).  The shift is on a u8, so  *)
(* it is taken modulo 256; the action occupies the low nibble.             *)
(***************************************************************************)
pack_shift5(state, action) == ((state * 32) % 256) + action

pack(state, action) == ((state * 16) % 256) + action

(***************************************************************************)
(* CLASS_TABLE: [u8; 256], indexed by the byte (here at byte + 1).         *)
(* Classes: 0 Exe, 1 Print, 2 Param, 3 Inter, 4 CsiEntry, 5 Esc, 6 Disp,   *)
(* 7 Osc, 8 Sos, 9 DcsEntry.                                               *)
(***************************************************************************)
CLASS_TABLE ==
  <<
    0, 0, 0, 0, 0, 0, 0, 0, 0, 0, 0, 0, 0, 0, 0, 0,   \* 00-0F
    0, 0, 0, 0, 0, 0, 0, 0, 0, 0, 0, 5, 0, 0, 0, 0,   \* 10-1F
    3, 3, 3, 3, 3, 3, 3, 3, 3, 3, 3, 3, 3, 3, 3, 3,   \* 20-2F
    2, 2, 2, 2, 2, 2, 2, 2, 2, 2, 2, 2, 2, 2, 2, 2,   \* 30-3F
    6, 6, 6, 6, 6, 6, 6, 6, 6, 6, 6, 6, 6, 6, 6, 6,   \* 40-4F
    9, 6, 6, 6, 6, 6, 6, 6, 6, 6, 6, 4, 6, 7, 6, 8,   \* 50-5F
    6, 6, 6, 6, 6, 6, 6, 6, 6, 6, 6, 6, 6, 6, 6, 6,   \* 60-6F
    6, 6, 6, 6, 6, 6, 6, 6, 6, 6, 6, 6, 6, 6, 6, 0,   \* 70-7F
    1, 1, 1, 1, 1, 1, 1, 1, 1, 1, 1, 1, 1, 1, 1, 1,   \* 80-8F
    1, 1, 1, 1, 1, 1, 1, 1, 1, 1, 1, 1, 1, 1, 1, 1,   \* 90-9F
    1, 1, 1, 1, 1, 1, 1, 1, 1, 1, 1, 1, 1, 1, 1, 1,   \* A0-AF
    1, 1, 1, 1, 1, 1, 1, 1, 1, 1, 1, 1, 1, 1, 1, 1,   \* B0-BF
    1, 1, 1, 1, 1, 1, 1, 1, 1, 1, 1, 1, 1, 1, 1, 1,   \* C0-CF
    1, 1, 1, 1, 1, 1, 1, 1, 1, 1, 1, 1, 1, 1, 1, 1,   \* D0-DF
    1, 1, 1, 1, 1, 1, 1, 1, 1, 1, 1, 1, 1, 1, 1, 1,   \* E0-EF
    1, 1, 1, 1, 1, 1, 1, 1, 1, 1, 1, 1, 1, 1, 1, 1    \* F0-FF
  >>

(***************************************************************************)
(* TRANSITION_TABLE: [[TableEntry; 16]; 14], rows indexed by state + 1,    *)
(* columns by class + 1.  Columns 10..15 are the literal 0 of the source.  *)
(***************************************************************************)
TRANSITION_TABLE ==
  <<
    \* State 0: Ground
    <<pack(Ground, ActExecute),
      pack(Ground, ActPrint),
      pack(Ground, ActPrint),
      pack(Ground, ActPrint),
      pack(Ground, ActPrint),
      pack(Escape, ActClear),
      pack(Ground, ActPrint),
      pack(Ground, ActPrint),
      pack(Ground, ActPrint),
      pack(Ground, ActPrint),
      0, 0, 0, 0, 0, 0>>,
    \* State 1: Escape
    <<pack(Escape, ActExecute),
      pack(Ground, ActEscDispatch),
      pack(Ground, ActEscDispatch),
      pack(EscapeIntermediate, ActCollect),
      pack(CsiEntry, ActClear),
      pack(Escape, ActClear),
      pack(Ground, ActEscDispatch),
      pack(OscString, ActOscStart),
      pack(SosPmApcString, ActNone),
      pack(DcsEntry, ActClear),
      0, 0, 0, 0, 0, 0>>,
    \* State 2: EscapeIntermediate
    <<pack(EscapeIntermediate, ActExecute),
      pack(Ground, ActEscDispatch),
      pack(Ground, ActEscDispatch),
      pack(EscapeIntermediate, ActCollect),
      pack(Ground, ActEscDispatch),
      pack(Escape, ActClear),
      pack(Ground, ActEscDispatch),
      pack(Ground, ActIgnore),
      pack(Ground, ActIgnore),
      pack(Ground, ActEscDispatch),
      0, 0, 0, 0, 0, 0>>,
    \* State 3: CsiEntry
    <<pack(CsiEntry, ActExecute),
      pack(CsiIgnore, ActNone),
      pack(CsiParam, ActParam),
      pack(CsiIntermediate, ActCollect),
      pack(CsiIgnore, ActNone),
      pack(Escape, ActClear),
      pack(Ground, ActCsiDispatch),
      pack(CsiIgnore, ActNone),
      pack(CsiIgnore, ActNone),
      pack(Ground, ActCsiDispatch),
      0, 0, 0, 0, 0, 0>>,
    \* State 4: CsiParam
    <<pack(CsiParam, ActExecute),
      pack(CsiIgnore, ActNone),
      pack(CsiParam, ActParam),
      pack(CsiIntermediate, ActCollect),
      pack(CsiIgnore, ActNone),
      pack(Escape, ActClear),
      pack(Ground, ActCsiDispatch),
      pack(CsiIgnore, ActNone),
      pack(CsiIgnore, ActNone),
      pack(Ground, ActCsiDispatch),
      0, 0, 0, 0, 0, 0>>,
    \* State 5: CsiIntermediate
    <<pack(CsiIntermediate, ActExecute),
      pack(CsiIgnore, ActNone),
      pack(CsiIgnore, ActParam),
      pack(CsiIntermediate, ActCollect),
      pack(CsiIgnore, ActNone),
      pack(Escape, ActClear),
      pack(Ground, ActCsiDispatch),
      pack(CsiIgnore, ActNone),
      pack(CsiIgnore, ActNone),
      pack(Ground, ActCsiDispatch),
      0, 0, 0, 0, 0, 0>>,
    \* State 6: CsiIgnore
    <<pack(CsiIgnore, ActExecute),
      pack(CsiIgnore, ActIgnore),
      pack(CsiIgnore, ActIgnore),
      pack(CsiIgnore, ActIgnore),
      pack(CsiIgnore, ActIgnore),
      pack(Escape, ActClear),
      pack(Ground, ActIgnore),
      pack(CsiIgnore, ActIgnore),
      pack(CsiIgnore, ActIgnore),
      pack(Ground, ActIgnore),
      0, 0, 0, 0, 0, 0>>,
    \* State 7: DcsEntry
    <<pack(DcsEntry, ActExecute),
      pack(DcsIgnore, ActIgnore),
      pack(DcsParam, ActParam),
      pack(DcsIntermediate, ActCollect),
      pack(DcsIgnore, ActIgnore),
      pack(Escape, ActClear),
      pack(DcsPassthrough, ActHook),
      pack(DcsIgnore, ActIgnore),
      pack(DcsIgnore, ActIgnore),
      pack(DcsPassthrough, ActHook),
      0, 0, 0, 0, 0, 0>>,
    \* State 8: DcsParam
    <<pack(DcsParam, ActExecute),
      pack(DcsIgnore, ActIgnore),
      pack(DcsParam, ActParam),
      pack(DcsIntermediate, ActCollect),
      pack(DcsIgnore, ActIgnore),
      pack(Escape, ActClear),
      pack(DcsPassthrough, ActHook),
      pack(DcsIgnore, ActIgnore),
      pack(DcsIgnore, ActIgnore),
      pack(DcsPassthrough, ActHook),
      0, 0, 0, 0, 0, 0>>,
    \* State 9: DcsIntermediate
    <<pack(DcsIntermediate, ActExecute),
      pack(DcsIgnore, ActIgnore),
      pack(DcsIgnore, ActParam),
      pack(DcsIntermediate, ActCollect),
      pack(DcsIgnore, ActIgnore),
      pack(Escape, ActClear),
      pack(DcsPassthrough, ActHook),
      pack(DcsIgnore, ActIgnore),
      pack(DcsIgnore, ActIgnore),
      pack(DcsPassthrough, ActHook),
      0, 0, 0, 0, 0, 0>>,
    \* State 10: DcsPassthrough
    <<pack(DcsPassthrough, ActPut),
      pack(DcsPassthrough, ActPut),
      pack(DcsPassthrough, ActPut),
      pack(DcsPassthrough, ActPut),
      pack(DcsPassthrough, ActPut),
      pack(Escape, ActUnhook),
      pack(DcsPassthrough, ActPut),
      pack(DcsPassthrough, ActPut),
      pack(DcsPassthrough, ActPut),
      pack(DcsPassthrough, ActPut),
      0, 0, 0, 0, 0, 0>>,
    \* State 11: DcsIgnore
    <<pack(DcsIgnore, ActIgnore),
      pack(DcsIgnore, ActIgnore),
      pack(DcsIgnore, ActIgnore),
      pack(DcsIgnore, ActIgnore),
      pack(DcsIgnore, ActIgnore),
      pack(Escape, ActClear),
      pack(Ground, ActUnhook),
      pack(DcsIgnore, ActIgnore),
      pack(DcsIgnore, ActIgnore),
      pack(Ground, ActUnhook),
      0, 0, 0, 0, 0, 0>>,
    \* State 12: OscString
    <<pack(Ground, ActOscEnd),
      pack(OscString, ActOscPut),
      pack(OscString, ActOscPut),
      pack(OscString, ActOscPut),
      pack(OscString, ActOscPut),
      pack(Escape, ActOscEnd),
      pack(OscString, ActOscPut),
      pack(OscString, ActOscPut),
      pack(OscString, ActOscPut),
      pack(OscString, ActOscPut),
      0, 0, 0, 0, 0, 0>>,
    \* State 13: SosPmApcString
    <<pack(SosPmApcString, ActIgnore),
      pack(SosPmApcString, ActIgnore),
      pack(SosPmApcString, ActIgnore),
      pack(SosPmApcString, ActIgnore),
      pack(SosPmApcString, ActIgnore),
      pack(Escape, ActClear),
      pack(SosPmApcString, ActIgnore),
      pack(SosPmApcString, ActIgnore),
      pack(SosPmApcString, ActIgnore),
      pack(SosPmApcString, ActIgnore),
      0, 0, 0, 0, 0, 0>>
  >>

(***************************************************************************)
(* Bytes the source names in its match arms and tables.                    *)
(***************************************************************************)
BEL == 7
BS  == 8
LF  == 10
VT  == 11
FF  == 12
CR  == 13
ESC == 27
SEMICOLON == 59
QUESTION  == 63
DEL == 127

Byte == 0..255

(***************************************************************************)
(* usize.  TLC's integers are 32-bit, so the native unsigned maximum of    *)
(* the model is the largest integer TLC represents; the saturating and     *)
(* checked operations below are written so that no intermediate value      *)
(* exceeds it.                                                             *)
(***************************************************************************)
UsizeMax == 2147483647

saturating_mul(a, b) == IF b # 0 /\ a > UsizeMax \div b THEN UsizeMax ELSE a * b

\* wrapping_add: the sum modulo UsizeMax + 1.
wrapping_add(a, b) == IF a > UsizeMax - b THEN a - (UsizeMax - b) - 1 ELSE a + b

saturating_add(a, b) == IF a > UsizeMax - b THEN UsizeMax ELSE a + b

\* Option<T>
None == <<>>

Some(v) == <<v>>

unwrap_or(opt, default) == IF opt = <<>> THEN default ELSE opt[1]

(***************************************************************************)
(* enum SelectGraphicRendition and SelectGraphicRendition::from_usize      *)
(* (definitions.rs).  A variant is a tuple: its name, then its fields.     *)
(***************************************************************************)
Foreground8Bit(c) == <<"Foreground8Bit", c>>

Background8Bit(c) == <<"Background8Bit", c>>

ForegroundTrueColor(r, g, b) == <<"ForegroundTrueColor", r, g, b>>

BackgroundTrueColor(r, g, b) == <<"BackgroundTrueColor", r, g, b>>

SgrUnknown(val) == <<"Unknown", val>>

from_usize(val) ==
  CASE val = 0 -> <<"Reset">>
    [] val = 1 -> <<"Bold">>
    [] val = 2 -> <<"Faint">>
    [] val = 3 -> <<"Italic">>
    [] val = 4 -> <<"Underline">>
    [] val = 5 -> <<"BlinkSlow">>
    [] val = 6 -> <<"BlinkRapid">>
    [] val = 7 -> <<"Reverse">>
    [] val = 8 -> <<"Conceal">>
    [] val = 22 -> <<"NormalIntensity">>
    [] val = 23 -> <<"NotItalic">>
    [] val = 24 -> <<"NotUnderline">>
    [] val = 28 -> <<"Reveal">>
    [] val = 30 -> <<"ForegroundBlack">>
    [] val = 31 -> <<"ForegroundRed">>
    [] val = 32 -> <<"ForegroundGreen">>
    [] val = 33 -> <<"ForegroundYellow">>
    [] val = 34 -> <<"ForegroundBlue">>
    [] val = 35 -> <<"ForegroundMagenta">>
    [] val = 36 -> <<"ForegroundCyan">>
    [] val = 37 -> <<"ForegroundWhite">>
    [] val = 38 -> SgrUnknown(38)
    [] val = 39 -> <<"ForegroundDefault">>
    [] val = 40 -> <<"BackgroundBlack">>
    [] val = 41 -> <<"BackgroundRed">>
    [] val = 42 -> <<"BackgroundGreen">>
    [] val = 43 -> <<"BackgroundYellow">>
    [] val = 44 -> <<"BackgroundBlue">>
    [] val = 45 -> <<"BackgroundMagenta">>
    [] val = 46 -> <<"BackgroundCyan">>
    [] val = 47 -> <<"BackgroundWhite">>
    [] val = 48 -> SgrUnknown(48)
    [] val = 49 -> <<"BackgroundDefault">>
    [] val = 90 -> <<"ForegroundBrightBlack">>
    [] val = 91 -> <<"ForegroundBrightRed">>
    [] val = 92 -> <<"ForegroundBrightGreen">>
    [] val = 93 -> <<"ForegroundBrightYellow">>
    [] val = 94 -> <<"ForegroundBrightBlue">>
    [] val = 95 -> <<"ForegroundBrightMagenta">>
    [] val = 96 -> <<"ForegroundBrightCyan">>
    [] val = 97 -> <<"ForegroundBrightWhite">>
    [] val = 100 -> <<"BackgroundBrightBlack">>
    [] val = 101 -> <<"BackgroundBrightRed">>
    [] val = 102 -> <<"BackgroundBrightGreen">>
    [] val = 103 -> <<"BackgroundBrightYellow">>
    [] val = 104 -> <<"BackgroundBrightBlue">>
    [] val = 105 -> <<"BackgroundBrightMagenta">>
    [] val = 106 -> <<"BackgroundBrightCyan">>
    [] val = 107 -> <<"BackgroundBrightWhite">>
    [] OTHER -> SgrUnknown(val)

(***************************************************************************)
(* enum TerminalOutput (definitions.rs)                                    *)
(***************************************************************************)
Data(bytes) == [type |-> "Data", bytes |-> bytes]

Osc(command, payload) == [type |-> "Osc", command |-> command, payload |-> payload]

DeviceControlString(params, intermediates, data) ==
  [type |-> "DeviceControlString", params |-> params,
   intermediates |-> intermediates, data |-> data]

SetCursorPos(x, y) == [type |-> "SetCursorPos", x |-> x, y |-> y]

CursorUp(n) == [type |-> "CursorUp", n |-> n]

CursorDown(n) == [type |-> "CursorDown", n |-> n]

CursorForward(n) == [type |-> "CursorForward", n |-> n]

CursorBackward(n) == [type |-> "CursorBackward", n |-> n]

ClearForwards == [type |-> "ClearForwards"]

ClearAll == [type |-> "ClearAll"]

ClearLineForwards == [type |-> "ClearLineForwards"]

Delete(n) == [type |-> "Delete", n |-> n]

InsertSpaces(n) == [type |-> "InsertSpaces", n |-> n]

Backspace == [type |-> "Backspace"]

Newline == [type |-> "Newline"]

CarriageReturn == [type |-> "CarriageReturn"]

Sgr(variant) == [type |-> "Sgr", sgr |-> variant]

SetCursorVisibility(visible) == [type |-> "SetCursorVisibility", visible |-> visible]

SetMode(mode) == [type |-> "SetMode", mode |-> mode]

ResetMode(mode) == [type |-> "ResetMode", mode |-> mode]

EnterAltScreen == [type |-> "EnterAltScreen"]

ExitAltScreen == [type |-> "ExitAltScreen"]

Decckm == "Decckm"

(***************************************************************************)
(* struct AnsiParser and AnsiParser::new (parser.rs)                       *)
(***************************************************************************)
AnsiParserNew ==
  [state |-> Ground,
   params |-> <<>>,
   current_param |-> None,
   intermediates |-> <<>>,
   data_buffer |-> <<>>,
   osc_buffer |-> <<>>,
   dcs_buffer |-> <<>>,
   dcs_params_cache |-> <<>>,
   dcs_intermediates_cache |-> <<>>]

\* The pair every mutating helper returns: the parser and the output vector.
Ctx(p, out) == [p |-> p, out |-> out]

\* get_param that answers 0, not the caller's default, for a missing parameter.
get_param_ignores_default(p, index, default) ==
  IF index < Len(p.params) THEN p.params[index + 1] ELSE 0

\* get_param that counts the parameters from 1.
get_param_off_by_one(p, index, default) ==
  IF 0 < index /\ index <= Len(p.params) THEN p.params[index] ELSE default

get_param(p, index, default) ==
  IF index < Len(p.params) THEN p.params[index + 1] ELSE default

get_param_opt(p, index) ==
  IF index < Len(p.params) THEN Some(p.params[index + 1]) ELSE None

flush_data_keeps_buffer(p, out) ==
  IF p.data_buffer # <<>>
    THEN Ctx(p, Append(out, Data(p.data_buffer)))
    ELSE Ctx(p, out)

flush_data(p, out) ==
  IF p.data_buffer # <<>>
    THEN Ctx([p EXCEPT !.data_buffer = <<>>], Append(out, Data(p.data_buffer)))
    ELSE Ctx(p, out)

clear_state(p) ==
  [p EXCEPT !.params = <<>>, !.current_param = None, !.intermediates = <<>>]

(***************************************************************************)
(* AnsiParser::parse_sgr.  sgr_walk is the while loop at index i (0-based, *)
(* as in the source); `as u8` is the value modulo 256.                     *)
(***************************************************************************)
as_u8(v) == v % 256

RECURSIVE sgr_walk(_, _, _)
sgr_walk(params, i, out) ==
  IF ~(i < Len(params)) THEN out
  ELSE
    LET param == params[i + 1]
        len == Len(params)
        is8 == i + 2 < len /\ params[i + 2] = 5
        is24 == i + 4 < len /\ params[i + 2] = 2
    IN CASE param = 38 ->
              IF is8
                THEN sgr_walk(params, i + 3,
                              Append(out, Sgr(Foreground8Bit(as_u8(params[i + 3])))))
              ELSE IF is24
                THEN sgr_walk(params, i + 5,
                              Append(out, Sgr(ForegroundTrueColor(as_u8(params[i + 3]),
                                                                  as_u8(params[i + 4]),
                                                                  as_u8(params[i + 5])))))
              ELSE sgr_walk(params, i + 2, Append(out, Sgr(SgrUnknown(38))))
         [] param = 48 ->
              IF is8
                THEN sgr_walk(params, i + 3,
                              Append(out, Sgr(Background8Bit(as_u8(params[i + 3])))))
              ELSE IF is24
                THEN sgr_walk(params, i + 5,
                              Append(out, Sgr(BackgroundTrueColor(as_u8(params[i + 3]),
                                                                  as_u8(params[i + 4]),
                                                                  as_u8(params[i + 5])))))
              ELSE sgr_walk(params, i + 2, Append(out, Sgr(SgrUnknown(48))))
         [] OTHER -> sgr_walk(params, i + 1, Append(out, Sgr(from_usize(param))))

\* A walker that forgets the extended forms and maps every parameter alone.
parse_sgr_no_extended(p, out) ==
  IF p.params = <<>>
    THEN Append(out, Sgr(<<"Reset">>))
    ELSE out \o [k \in 1..Len(p.params) |-> Sgr(from_usize(p.params[k]))]

\* A walker that stops after the first parameter.
parse_sgr_first_only(p, out) ==
  IF p.params = <<>>
    THEN Append(out, Sgr(<<"Reset">>))
    ELSE sgr_walk(<<p.params[1]>>, 0, out)

parse_sgr(p, out) ==
  IF p.params = <<>>
    THEN Append(out, Sgr(<<"Reset">>))
    ELSE sgr_walk(p.params, 0, out)

(***************************************************************************)
(* AnsiParser::perform_esc_dispatch: only the output changes.              *)
(***************************************************************************)
\* perform_esc_dispatch with ESC M moving the cursor down.
perform_esc_dispatch_m_down(p, terminator, out) ==
  IF p.intermediates = <<>>
    THEN CASE terminator = 68 -> Append(out, Newline)
           [] terminator = 77 -> Append(out, CursorDown(1))
           [] terminator = 69 -> Append(out, Newline)
           [] OTHER -> out
    ELSE out

perform_esc_dispatch(p, terminator, out) ==
  IF p.intermediates = <<>>
    THEN CASE terminator = 68 -> Append(out, Newline)          \* b'D'
           [] terminator = 77 -> Append(out, CursorUp(1))      \* b'M'
           [] terminator = 69 -> Append(out, Newline)          \* b'E'
           [] OTHER -> out
    ELSE out

(***************************************************************************)
(* AnsiParser::perform_csi_dispatch.  private_mode_events is the first     *)
(* match (on the terminator, then the parameter); csi_match is the second  *)
(* match, on (intermediates, terminator).                                  *)
(***************************************************************************)
\* The private modes with `l` handled as `h`.
private_mode_events_always_set(terminator, param, out) ==
  IF terminator = 104 \/ terminator = 108
    THEN CASE param = 25 -> Append(out, SetCursorVisibility(TRUE))
           [] param = 1049 -> Append(out, EnterAltScreen)
           [] param = 1 -> Append(out, SetMode(Decckm))
           [] OTHER -> out
    ELSE out

private_mode_events(terminator, param, out) ==
  CASE terminator = 104 ->                                     \* b'h'
         (CASE param = 25 -> Append(out, SetCursorVisibility(TRUE))
            [] param = 1049 -> Append(out, EnterAltScreen)
            [] param = 1 -> Append(out, SetMode(Decckm))
            [] OTHER -> out)
    [] terminator = 108 ->                                     \* b'l'
         (CASE param = 25 -> Append(out, SetCursorVisibility(FALSE))
            [] param = 1049 -> Append(out, ExitAltScreen)
            [] param = 1 -> Append(out, ResetMode(Decckm))
            [] OTHER -> out)
    [] OTHER -> out

\* max that keeps its first argument.
max_keeps_first(a, b) == a

max(a, b) == IF a >= b THEN a ELSE b

csi_match(p, terminator, out) ==
  IF p.intermediates = <<>> THEN
    CASE terminator = 65 -> Append(out, CursorUp(get_param(p, 0, 1)))         \* b'A'
      [] terminator = 66 -> Append(out, CursorDown(get_param(p, 0, 1)))       \* b'B'
      [] terminator = 67 -> Append(out, CursorForward(get_param(p, 0, 1)))    \* b'C'
      [] terminator = 68 -> Append(out, CursorBackward(get_param(p, 0, 1)))   \* b'D'
      [] terminator = 72 \/ terminator = 102 ->                               \* b'H' | b'f'
           LET y == IF get_param_opt(p, 0) = None THEN 1 ELSE max(get_param_opt(p, 0)[1], 1)
               x == IF get_param_opt(p, 1) = None THEN 1 ELSE max(get_param_opt(p, 1)[1], 1)
           IN Append(out, SetCursorPos(Some(x), Some(y)))
      [] terminator = 71 ->                                                   \* b'G'
           Append(out, SetCursorPos(Some(max(get_param(p, 0, 1), 1)), None))
      [] terminator = 74 ->                                                   \* b'J'
           (CASE get_param(p, 0, 0) = 0 -> Append(out, ClearForwards)
              [] get_param(p, 0, 0) \in {2, 3} -> Append(out, ClearAll)
              [] OTHER -> out)
      [] terminator = 75 ->                                                   \* b'K'
           (CASE get_param(p, 0, 0) = 0 -> Append(out, ClearLineForwards)
              [] get_param(p, 0, 0) = 1 -> Append(out, Backspace)
              [] get_param(p, 0, 0) = 2 -> Append(out, ClearLineForwards)
              [] OTHER -> out)
      [] terminator = 80 -> Append(out, Delete(get_param(p, 0, 1)))           \* b'P'
      [] terminator = 64 -> Append(out, InsertSpaces(get_param(p, 0, 1)))     \* b'@'
      [] terminator = 109 -> parse_sgr(p, out)                                \* b'm'
      [] OTHER -> out
  ELSE IF p.intermediates = <<QUESTION>> THEN
    CASE terminator = 104 -> private_mode_events(104, get_param(p, 0, 0), out)
      [] terminator = 108 -> private_mode_events(108, get_param(p, 0, 0), out)
      [] OTHER -> out
  ELSE out

perform_csi_dispatch(p, terminator, out) ==
  LET intermediates == p.intermediates
      param == get_param(p, 0, 0)
      private == intermediates = <<QUESTION>>
                 \/ (intermediates = <<>> /\ (terminator = 104 \/ terminator = 108))
      out1 == IF private THEN private_mode_events(terminator, param, out) ELSE out
  IN IF private /\ (intermediates = <<QUESTION>> \/ param = 1049 \/ param = 25 \/ param = 1)
       THEN out1
       ELSE csi_match(p, terminator, out1)

(***************************************************************************)
(* str::parse::<usize>() on the bytes of a slice: an optional leading '+', *)
(* then one or more ASCII digits; an empty string, any other byte or a     *)
(* value above the maximum is an Err (None here).  A slice that is not     *)
(* UTF-8 is replaced by "0" in the source; such a slice holds a byte that  *)
(* is no digit, and parses to Err, which unwrap_or(0) maps to 0 as well.   *)
(***************************************************************************)
RECURSIVE checked_decimal(_, _, _)
checked_decimal(digits, i, acc) ==
  IF i > Len(digits) THEN Some(acc)
  ELSE IF digits[i] \notin 48..57 THEN None
  ELSE IF acc > (UsizeMax - (digits[i] - 48)) \div 10 THEN None
  ELSE checked_decimal(digits, i + 1, acc * 10 + (digits[i] - 48))

parse_usize(s) ==
  LET digits == IF Len(s) > 1 /\ s[1] = 43 THEN Tail(s) ELSE s
  IN IF digits = <<>> THEN None ELSE checked_decimal(digits, 1, 0)

\* position that finds the last occurrence of the byte.
position_of_last(buf, byte) ==
  IF \E k \in 1..Len(buf) : buf[k] = byte
    THEN Some((CHOOSE k \in 1..Len(buf) :
                 buf[k] = byte /\ \A j \in (k + 1)..Len(buf) : buf[j] # byte) - 1)
    ELSE None

\* iter().position(|&b| b == b';'): the 0-based index of the first ';'.
position(buf, byte) ==
  IF \E k \in 1..Len(buf) : buf[k] = byte
    THEN Some((CHOOSE k \in 1..Len(buf) :
                 buf[k] = byte /\ \A j \in 1..(k - 1) : buf[j] # byte) - 1)
    ELSE None

(***************************************************************************)
(* The arms of `match action` in AnsiParser::push.  Each takes the parser, *)
(* the output vector and the byte, and returns both.                       *)
(***************************************************************************)
DoPrint_overwrites(p, out, byte) == Ctx([p EXCEPT !.data_buffer = <<byte>>], out)

DoPrint(p, out, byte) == Ctx([p EXCEPT !.data_buffer = Append(@, byte)], out)

c0_event(byte, out) ==
  CASE byte = BS \/ byte = DEL -> Append(out, Backspace)
    [] byte = LF \/ byte = VT \/ byte = FF -> Append(out, Newline)
    [] byte = CR -> Append(out, CarriageReturn)
    [] OTHER -> out

\* Execute with the event pushed before the pending text is flushed.
DoExecute_event_first(p, out, byte) == flush_data(p, c0_event(byte, out))

\* Execute that abandons the sequence in progress.
DoExecute_aborts_sequence(p, out, byte) ==
  LET f == flush_data(p, out)
  IN Ctx(clear_state(f.p), c0_event(byte, f.out))

\* Execute that flushes the text only when the byte has an event.
DoExecute_flushes_for_events(p, out, byte) ==
  IF c0_event(byte, <<>>) = <<>> THEN Ctx(p, out)
  ELSE LET f == flush_data(p, out)
       IN Ctx(f.p, c0_event(byte, f.out))

DoExecute(p, out, byte) ==
  LET f == flush_data(p, out)
  IN Ctx(f.p, c0_event(byte, f.out))

\* Clear that flushes the text and keeps the sequence state.
DoClear_keeps_state(p, out, byte) == flush_data(p, out)

DoClear(p, out, byte) ==
  LET f == flush_data(p, out)
  IN Ctx(clear_state(f.p), f.out)

DoCollect(p, out, byte) == Ctx([p EXCEPT !.intermediates = Append(@, byte)], out)

DoParam(p, out, byte) ==
  IF byte = SEMICOLON
    THEN Ctx([p EXCEPT !.params = Append(@, unwrap_or(p.current_param, 0)),
                       !.current_param = None], out)
  ELSE IF byte \in 48..57
    THEN Ctx([p EXCEPT !.current_param =
                Some(saturating_add(saturating_mul(unwrap_or(p.current_param, 0), 10),
                                    byte - 48))], out)
  ELSE Ctx(p, out)

\* EscDispatch without the clear_state after the dispatch.
DoEscDispatch_no_clear(p, out, byte) ==
  LET f == flush_data(p, out)
  IN Ctx(f.p, perform_esc_dispatch(f.p, byte, f.out))

DoEscDispatch(p, out, byte) ==
  LET f == flush_data(p, out)
  IN Ctx(clear_state(f.p), perform_esc_dispatch(f.p, byte, f.out))

\* `if let Some(p) = self.current_param { self.params.push(p) }`
push_current_param(p) ==
  IF p.current_param # None
    THEN [p EXCEPT !.params = Append(@, p.current_param[1])]
    ELSE p

\* CsiDispatch without the trailing clear_state().
DoCsiDispatch_no_clear(p, out, byte) ==
  LET f == flush_data(p, out)
      q == push_current_param(f.p)
  IN Ctx(q, perform_csi_dispatch(q, byte, f.out))

DoCsiDispatch(p, out, byte) ==
  LET f == flush_data(p, out)
      q == push_current_param(f.p)
  IN Ctx(clear_state(q), perform_csi_dispatch(q, byte, f.out))

DoOscStart(p, out, byte) ==
  LET f == flush_data(p, out)
  IN Ctx([f.p EXCEPT !.osc_buffer = <<>>], f.out)

DoOscPut(p, out, byte) == Ctx([p EXCEPT !.osc_buffer = Append(@, byte)], out)

\* OscEnd that keeps OSC 8 to itself: no event for command 8.
DoOscEnd_swallows_osc8(p, out, byte) ==
  LET buf == p.osc_buffer
      idx == position(buf, SEMICOLON)
      command == IF idx # None
                   THEN unwrap_or(parse_usize(SubSeq(buf, 1, idx[1])), 0)
                   ELSE unwrap_or(parse_usize(buf), 0)
      payload == IF idx # None THEN SubSeq(buf, idx[1] + 2, Len(buf)) ELSE buf
  IN Ctx([p EXCEPT !.osc_buffer = <<>>],
         IF buf # <<>> /\ command # 8 THEN Append(out, Osc(command, payload)) ELSE out)

\* OscEnd that parses a command number only before a semicolon.
DoOscEnd_command_needs_separator(p, out, byte) ==
  LET buf == p.osc_buffer
      idx == position(buf, SEMICOLON)
      command == IF idx # None
                   THEN unwrap_or(parse_usize(SubSeq(buf, 1, idx[1])), 0)
                   ELSE 0
      payload == IF idx # None THEN SubSeq(buf, idx[1] + 2, Len(buf)) ELSE buf
  IN Ctx([p EXCEPT !.osc_buffer = <<>>],
         IF buf # <<>> THEN Append(out, Osc(command, payload)) ELSE out)

DoOscEnd(p, out, byte) ==
  LET buf == p.osc_buffer
      idx == position(buf, SEMICOLON)
      command == IF idx # None
                   THEN unwrap_or(parse_usize(SubSeq(buf, 1, idx[1])), 0)
                   ELSE unwrap_or(parse_usize(buf), 0)
      payload == IF idx # None THEN SubSeq(buf, idx[1] + 2, Len(buf)) ELSE buf
  IN Ctx([p EXCEPT !.osc_buffer = <<>>],
         IF buf # <<>> THEN Append(out, Osc(command, payload)) ELSE out)

DoHook(p, out, byte) ==
  LET f == flush_data(p, out)
      q == push_current_param(f.p)
  IN Ctx([q EXCEPT !.dcs_params_cache = q.params,
                   !.dcs_intermediates_cache = q.intermediates,
                   !.dcs_buffer = <<>>], f.out)

\* Put that keeps C0 controls out of the DCS data.
DoPut_skips_controls(p, out, byte) ==
  Ctx([p EXCEPT !.dcs_buffer = IF byte < 32 THEN @ ELSE Append(@, byte)], out)

DoPut(p, out, byte) == Ctx([p EXCEPT !.dcs_buffer = Append(@, byte)], out)

DoUnhook(p, out, byte) ==
  Ctx([p EXCEPT !.dcs_params_cache = <<>>,
                !.dcs_intermediates_cache = <<>>,
                !.dcs_buffer = <<>>],
      Append(out, DeviceControlString(p.dcs_params_cache,
                                      p.dcs_intermediates_cache,
                                      p.dcs_buffer)))

perform(p, out, action, byte) ==
  CASE action = ActNone \/ action = ActIgnore -> Ctx(p, out)
    [] action = ActPrint -> DoPrint(p, out, byte)
    [] action = ActExecute -> DoExecute(p, out, byte)
    [] action = ActClear -> DoClear(p, out, byte)
    [] action = ActCollect -> DoCollect(p, out, byte)
    [] action = ActParam -> DoParam(p, out, byte)
    [] action = ActEscDispatch -> DoEscDispatch(p, out, byte)
    [] action = ActCsiDispatch -> DoCsiDispatch(p, out, byte)
    [] action = ActOscStart -> DoOscStart(p, out, byte)
    [] action = ActOscPut -> DoOscPut(p, out, byte)
    [] action = ActOscEnd -> DoOscEnd(p, out, byte)
    [] action = ActHook -> DoHook(p, out, byte)
    [] action = ActPut -> DoPut(p, out, byte)
    [] action = ActUnhook -> DoUnhook(p, out, byte)

(***************************************************************************)
(* One iteration of the loop of AnsiParser::push: classify, look up,       *)
(* unpack, perform the action, set the state.                              *)
(***************************************************************************)
class_of(byte) == CLASS_TABLE[byte + 1]

entry_of(state, byte) == TRANSITION_TABLE[state + 1][class_of(byte) + 1]

\* A CsiIgnore that nothing but ESC leaves.
next_state_of_ignore_absorbs(state, byte) ==
  IF state = CsiIgnore /\ byte # ESC THEN CsiIgnore ELSE entry_of(state, byte) \div 16

next_state_of(state, byte) == entry_of(state, byte) \div 16

action_of(state, byte) == entry_of(state, byte) % 16

step(p, out, byte) ==
  LET next_state == next_state_of(p.state, byte)
      action == action_of(p.state, byte)
      r == perform(p, out, action, byte)
  IN Ctx([r.p EXCEPT !.state = next_state], r.out)

\* `unsafe { std::mem::transmute(..) }` of the two nibbles is defined only when
\* they are discriminants of State and Action.
valid_entry(state, byte) ==
  next_state_of(state, byte) \in States /\ action_of(state, byte) \in Actions

\* `for &byte in incoming { ... }` from the byte at index i (1-based) on.  An
\* entry that is no (State, Action) pair would be undefined behaviour; no entry
\* of the table is (see C6_TableTotality), so the loop never stops there.
RECURSIVE run(_, _, _, _)
run(p, out, incoming, i) ==
  IF i > Len(incoming) THEN Ctx(p, out)
  ELSE IF ~valid_entry(p.state, incoming[i]) THEN Ctx(p, out)
  ELSE LET r == step(p, out, incoming[i])
       IN run(r.p, r.out, incoming, i + 1)

\* push that returns the events without the flush after the loop.
push_no_final_flush(p, incoming) == run(p, <<>>, incoming, 1)

\* push that starts every call from a cleared sequence state.
push_restarts(p, incoming) ==
  LET r == run([clear_state(p) EXCEPT !.state = Ground], <<>>, incoming, 1)
  IN flush_data(r.p, r.out)

\* push that drops the parameter digits collected by earlier calls.
push_forgets_param(p, incoming) ==
  LET r == run([p EXCEPT !.current_param = None], <<>>, incoming, 1)
  IN flush_data(r.p, r.out)

(***************************************************************************)
(* AnsiParser::push: a fresh output vector, the loop, the final flush.     *)
(***************************************************************************)
push(p, incoming) ==
  LET r == run(p, <<>>, incoming, 1)
  IN flush_data(r.p, r.out)

(***************************************************************************)
(* The caller.  One AnsiParser is fed chunk after chunk; `chunks` and      *)
(* `outputs` record each call of push (its argument and its return value)  *)
(* and `pre` is the parser as it was when the last call began.             *)
(***************************************************************************)
VARIABLES parser, pre, chunks, outputs

vars == <<parser, pre, chunks, outputs>>

\* let mut parser = AnsiParser::new();
Init ==
  /\ parser = AnsiParserNew
  /\ pre = AnsiParserNew
  /\ chunks = <<>>
  /\ outputs = <<>>

\* let output = parser.push(incoming);
Push(incoming) ==
  /\ parser' = push(parser, incoming).p
  /\ outputs' = Append(outputs, push(parser, incoming).out)
  /\ pre' = parser
  /\ chunks' = Append(chunks, incoming)

\* A parser that has been fed `prefix` in one call.
InitAfter(prefix) ==
  /\ parser = push(AnsiParserNew, prefix).p
  /\ pre = AnsiParserNew
  /\ chunks = <<prefix>>
  /\ outputs = <<push(AnsiParserNew, prefix).out>>

\* What the caller has supplied and received so far.
RECURSIVE Flatten(_)
Flatten(seqs) == IF seqs = <<>> THEN <<>> ELSE Head(seqs) \o Flatten(Tail(seqs))

history == Flatten(chunks)

all_output == Flatten(outputs)

last_chunk == chunks[Len(chunks)]

last_output == outputs[Len(outputs)]

SeqsOfLen(S, lo, hi) ==
  UNION {IF k = 0 THEN {<<>>} ELSE [1..k -> S] : k \in lo..hi}

(***************************************************************************)
(* Spec: text, C0 controls and the bytes of CSI, ESC, OSC and DCS          *)
(* sequences, whole and cut at byte boundaries, in up to MaxPushes calls.  *)
(***************************************************************************)
MaxPushes == 4

Chunks ==
  { <<>>,
    <<97>>,                      \* a
    <<97, 0, 98>>,               \* a NUL b
    <<195, LF, 100>>,            \* 0xC3 LF d
    <<ESC>>,
    <<91>>,                      \* [
    <<ESC, 80, 49, 113, 97>>,    \* ESC P 1 q a
    <<109>>,                     \* m
    <<ESC, 91, 49, 59, 51, 49>>, \* ESC [ 1 ; 3 1
    <<97, ESC, 68, 98>>,         \* a ESC D b
    <<93, 48, 59, 84>>,          \* ] 0 ; T
    <<BEL>> }

Next == \E incoming \in Chunks : Len(chunks) < MaxPushes /\ Push(incoming)

Spec == Init /\ [][Next]_vars

(***************************************************************************)
(* SpecText: every string over TextAlphabet of up to MaxTextBytes bytes,   *)
(* cut into calls in every way.  The alphabet holds a byte of every        *)
(* printable class and the ends of the printable ranges, and ESC, LF and   *)
(* DEL.                                                                    *)
(***************************************************************************)
MaxTextBytes == 3

TextAlphabet ==
  {32, 48, 65, 80, 88, 91, 93, 126, 128, 255, ESC, LF, DEL}

NextText ==
  \E incoming \in SeqsOfLen(TextAlphabet, 1, MaxTextBytes - Len(history)) :
    Push(incoming)

SpecText == Init /\ [][NextText]_vars

(***************************************************************************)
(* SpecBytes: a parser brought into each of the 14 states, then fed any    *)
(* byte, one byte a call, MaxProbes times.                                 *)
(***************************************************************************)
MaxProbes == 1

StatePrefixes ==
  { <<>>,                            \* Ground
    <<ESC>>,                         \* Escape
    <<ESC, 40>>,                     \* EscapeIntermediate: ESC (
    <<ESC, 91>>,                     \* CsiEntry: ESC [
    <<ESC, 91, 49, 59, 50>>,         \* CsiParam: ESC [ 1 ; 2
    <<ESC, 91, 51, 32>>,             \* CsiIntermediate: ESC [ 3 SP
    <<ESC, 91, 32, 49>>,             \* CsiIgnore: ESC [ SP 1
    <<ESC, 80>>,                     \* DcsEntry: ESC P
    <<ESC, 80, 49, 59, 50>>,         \* DcsParam: ESC P 1 ; 2
    <<ESC, 80, 49, 36>>,             \* DcsIntermediate: ESC P 1 $
    <<ESC, 80, 49, 36, 113, 68>>,    \* DcsPassthrough: ESC P 1 $ q D
    <<ESC, 80, 36, 49>>,             \* DcsIgnore: ESC P $ 1
    <<ESC, 93, 48, 59, 84>>,         \* OscString: ESC ] 0 ; T
    <<ESC, 95, 97>> }                \* SosPmApcString: ESC _ a

InitBytes == \E prefix \in StatePrefixes : InitAfter(prefix)

NextBytes == \E byte \in Byte : Len(chunks) < 1 + MaxProbes /\ Push(<<byte>>)

SpecBytes == InitBytes /\ [][NextBytes]_vars

(***************************************************************************)
(* SpecSgr: a parser that has read ESC [ and a parameter list, then reads  *)
(* the final byte m.  The lists: every single code up to SgrCodeTop, every *)
(* list of up to MaxSgrParams values of SgrVals, and every complete        *)
(* extended-colour group between up to one ordinary code on each side.     *)
(***************************************************************************)
MaxSgrParams == 3

SgrCodeTop == 110

SgrVals == {0, 1, 2, 5, 31, 38, 48, 300}

ColourVals == {0, 5, 255, 256, 511}

AroundVals == {1, 2, 5, 42}

ColourGroups ==
  {<<k, 5, c>> : k \in {38, 48}, c \in ColourVals}
    \cup {<<s[1], 2, s[2], s[3], s[4]>> : s \in {38, 48} \X ColourVals \X ColourVals \X ColourVals}

SgrParamLists ==
  {<<v>> : v \in 0..SgrCodeTop}
    \cup SeqsOfLen(SgrVals, 0, MaxSgrParams)
    \cup {s[1] \o s[2] \o s[3] :
            s \in SeqsOfLen(AroundVals, 0, 1) \X ColourGroups \X SeqsOfLen(AroundVals, 0, 1)}

\* The decimal digits of n, and a parameter list as it is written on the wire.
RECURSIVE Decimal(_)
Decimal(n) == IF n < 10 THEN <<48 + n>> ELSE Append(Decimal(n \div 10), 48 + (n % 10))

RECURSIVE Render(_)
Render(list) ==
  IF list = <<>> THEN <<>>
  ELSE IF Len(list) = 1 THEN Decimal(list[1])
  ELSE Decimal(list[1]) \o <<SEMICOLON>> \o Render(Tail(list))

InitSgr == \E list \in SgrParamLists : InitAfter(<<ESC, 91>> \o Render(list))

NextSgr == parser.state \in {CsiEntry, CsiParam} /\ Push(<<109>>)

SpecSgr == InitSgr /\ [][NextSgr]_vars

(***************************************************************************)
(* SpecSync: the synchronized-update sequences ESC [ ? 2026 h / l around   *)
(* an SGR sequence and text, in up to MaxPushes calls.                     *)
(***************************************************************************)
SyncBegin == <<ESC, 91, QUESTION, 50, 48, 50, 54, 104>>

SyncEnd == <<ESC, 91, QUESTION, 50, 48, 50, 54, 108>>

SyncChunks ==
  { SyncBegin, SyncEnd,
    <<ESC, 91, 51, 49, 109>>,        \* ESC [ 3 1 m
    <<88>>,                          \* X
    <<LF>> }

NextSync == \E incoming \in SyncChunks : Len(chunks) < MaxPushes /\ Push(incoming)

SpecSync == Init /\ [][NextSync]_vars

(***************************************************************************)
(* Helpers of the properties.                                              *)
(***************************************************************************)
IsData(e) == e.type = "Data"

IsPrefix(s, t) == Len(s) <= Len(t) /\ SubSeq(t, 1, Len(s)) = s

\* The payloads of the Data events of a list of events, joined in order.
RECURSIVE DataBytes(_)
DataBytes(events) ==
  IF events = <<>> THEN <<>>
  ELSE IF IsData(Head(events)) THEN Head(events).bytes \o DataBytes(Tail(events))
  ELSE DataBytes(Tail(events))

\* A list of events with every run of adjacent Data events merged into one.
RECURSIVE MergeData(_)
MergeData(events) ==
  IF Len(events) < 2 THEN events
  ELSE IF IsData(events[1]) /\ IsData(events[2])
    THEN MergeData(<<Data(events[1].bytes \o events[2].bytes)>> \o Tail(Tail(events)))
  ELSE <<events[1]>> \o MergeData(Tail(events))

\* The loop of push over the first i bytes of `bytes`, from parser q.
After(q, bytes, i) == run(q, <<>>, SubSeq(bytes, 1, i), 1)

\* The actions the loop performs on the bytes of `bytes` from index i on,
\* starting from parser q; no action on the bytes the loop does not reach.
RECURSIVE Performed(_, _, _)
Performed(q, bytes, i) ==
  IF i > Len(bytes) THEN <<>>
  ELSE IF ~valid_entry(q.state, bytes[i]) THEN [k \in 1..(Len(bytes) - i + 1) |-> ActNone]
  ELSE <<action_of(q.state, bytes[i])>> \o Performed(step(q, <<>>, bytes[i]).p, bytes, i + 1)

\* The action the loop performs on byte i of `bytes`.
ActionAt(q, bytes, i) == Performed(q, bytes, 1)[i]

\* The bytes among the first i of `bytes` on which the loop performs Print.
Printed(q, bytes, i) ==
  LET acts == Performed(q, bytes, 1)
      F[k \in 0..i] ==
        IF k = 0 THEN <<>>
        ELSE IF acts[k] = ActPrint THEN Append(F[k - 1], bytes[k]) ELSE F[k - 1]
  IN F[i]

\* One push of everything supplied so far, to a fresh parser.
Whole == push(AnsiParserNew, history).out

\* The lengths of the input at which one call ended and the next began.
Cuts == {Len(Flatten(SubSeq(chunks, 1, j))) : j \in 1..(Len(chunks) - 1)}

\* A cut between two bytes that are both printed.
CutInPrintedRun ==
  LET acts == Performed(AnsiParserNew, history, 1)
  IN \E k \in Cuts :
       /\ 1 <= k /\ k < Len(history)
       /\ acts[k] = ActPrint
       /\ acts[k + 1] = ActPrint

Printable(byte) == byte \in 32..126 \/ byte \in 128..255

AllPrintable(bytes) == \A k \in 1..Len(bytes) : Printable(bytes[k])

(***************************************************************************)
(* C1 as stated: the outputs of the calls, concatenated, are exactly the   *)
(* output of one call with the concatenated input, wherever the input is   *)
(* cut.                                                                    *)
(***************************************************************************)
C1_ExactChunkInvariance == all_output = Whole

(***************************************************************************)
(* C1, amended: the concatenated outputs equal the output of one call      *)
(* exactly when no cut falls between two bytes that are both printed; a    *)
(* cut inside a printed run gives two Data events where one call gives     *)
(* one.                                                                    *)
(***************************************************************************)
C1_ChunkInvarianceOffPrintedRuns == (all_output = Whole) <=> ~CutInPrintedRun

\* A CSI sequence cut across calls, after text, with equal outputs.
C1_Witness ==
  /\ Len(chunks) >= 3
  /\ pre.state = CsiParam
  /\ last_chunk = <<109>>
  /\ \E k \in 1..Len(all_output) : IsData(all_output[k])
  /\ ~CutInPrintedRun
  /\ all_output = Whole

(***************************************************************************)
(* C2: after merging adjacent Data events, the concatenated outputs of the *)
(* calls equal the output of one call with the concatenated input; and a   *)
(* call whose bytes all lie inside a CSI or OSC sequence begun earlier     *)
(* (no ESC, no C0 byte, the sequence still open afterwards) returns        *)
(* nothing.                                                                *)
(***************************************************************************)
C2_ChunkEquivalenceUpToMerging ==
  /\ MergeData(all_output) = MergeData(Whole)
  /\ (/\ Len(chunks) > 0
      /\ parser.state \in {CsiEntry, CsiParam, CsiIntermediate, OscString}
      /\ \A k \in 1..Len(last_chunk) : class_of(last_chunk[k]) \notin {0, 5})
     => last_output = <<>>

\* An OSC and a CSI sequence both cut across calls, and text cut in a run.
C2_Witness ==
  /\ Len(chunks) >= 3
  /\ CutInPrintedRun
  /\ all_output # Whole
  /\ pre.state \in {CsiParam, OscString}
  /\ last_chunk \in {<<109>>, <<BEL>>}
  /\ last_output # <<>>

(***************************************************************************)
(* C3: during a call the output only grows at its end, byte after byte,    *)
(* and when a non-Data event is appended while byte i is processed, the    *)
(* Data events before it hold exactly the bytes printed before byte i:     *)
(* nothing printed is still pending in data_buffer.                        *)
(***************************************************************************)
C3_OrderAndFlushBeforeControl ==
  Len(chunks) > 0 =>
    LET n == Len(last_chunk)
        O(i) == After(pre, last_chunk, i).out
    IN /\ \A i \in 1..n : IsPrefix(O(i - 1), O(i))
       /\ IsPrefix(O(n), last_output)
       /\ \A i \in 1..n :
            \A j \in (Len(O(i - 1)) + 1)..Len(O(i)) :
              ~IsData(O(i)[j]) =>
                DataBytes(SubSeq(O(i), 1, j - 1)) = Printed(pre, last_chunk, i - 1)

\* Text, a control event, text: the Data event comes before the control event.
C3_Witness ==
  /\ Len(chunks) > 0
  /\ Len(last_output) = 3
  /\ IsData(last_output[1])
  /\ last_output[2] = Newline
  /\ IsData(last_output[3])

(***************************************************************************)
(* C4: a parser in Ground that is given a non-empty string of bytes in     *)
(* 0x20..0x7E and 0x80..0xFF returns exactly one Data event holding the    *)
(* string, and stays in Ground.                                            *)
(***************************************************************************)
C4_PlainTextPassthrough ==
  (/\ Len(chunks) > 0
   /\ pre.state = Ground
   /\ last_chunk # <<>>
   /\ AllPrintable(last_chunk))
  => /\ last_output = <<Data(last_chunk)>>
     /\ parser.state = Ground

\* Three printable bytes, one of them above 0x7F, given in one call in Ground.
C4_Witness ==
  /\ Len(chunks) = 2
  /\ pre.state = Ground
  /\ Len(last_chunk) = 2
  /\ AllPrintable(last_chunk)
  /\ \E k \in 1..Len(last_chunk) : last_chunk[k] >= 128
  /\ last_output = <<Data(last_chunk)>>

\* The bytes printed since the last byte of `bytes` that was not printed.
TrailingPrinted(q, bytes) ==
  LET n == Len(bytes)
      acts == Performed(q, bytes, 1)
      Stops == {k \in 1..n : acts[k] # ActPrint}
      from == IF Stops = {} THEN 1 ELSE (CHOOSE k \in Stops : \A j \in Stops : j <= k) + 1
  IN SubSeq(bytes, from, n)

(***************************************************************************)
(* C5: when a call returns, data_buffer is empty; bytes printed at the end *)
(* of the chunk are in the last Data event of that call's own output; a    *)
(* call with no bytes returns nothing; text given in two calls gives two   *)
(* Data events, one in each output.                                        *)
(***************************************************************************)
C5_EndOfPushFlush ==
  /\ parser.data_buffer = <<>>
  /\ Len(chunks) > 0 =>
       /\ last_chunk = <<>> => last_output = <<>>
       /\ TrailingPrinted(pre, last_chunk) # <<>> =>
            /\ last_output # <<>>
            /\ last_output[Len(last_output)] = Data(TrailingPrinted(pre, last_chunk))
  /\ (/\ Len(chunks) >= 2
      /\ pre.state = Ground
      /\ outputs[Len(outputs) - 1] # <<>>
      /\ IsData(outputs[Len(outputs) - 1][Len(outputs[Len(outputs) - 1])])
      /\ last_chunk # <<>>
      /\ AllPrintable(last_chunk))
     => last_output = <<Data(last_chunk)>>

\* Text given in two calls, each answered with its own Data event; and before
\* them a call with no bytes.
C5_Witness ==
  /\ Len(chunks) >= 3
  /\ chunks[Len(chunks) - 2] = <<>>
  /\ outputs[Len(outputs) - 1] = <<Data(chunks[Len(chunks) - 1])>>
  /\ last_output = <<Data(last_chunk)>>
  /\ parser.data_buffer = <<>>

\* Every entry of the two tables, decoded as push decodes it.
AllEntriesDecode ==
  /\ \A byte \in Byte : class_of(byte) \in 0..9
  /\ \A state \in States : \A byte \in Byte :
       /\ entry_of(state, byte) \div 16 <= 13
       /\ entry_of(state, byte) % 16 <= 14
  /\ \A row \in 1..Len(TRANSITION_TABLE) : \A col \in 1..Len(TRANSITION_TABLE[row]) :
       /\ TRANSITION_TABLE[row][col] \div 16 <= 13
       /\ TRANSITION_TABLE[row][col] % 16 <= 14

(***************************************************************************)
(* C6: every byte has a class in 0..9 and, in every state, the entry of    *)
(* the table for it decodes to a State (high nibble <= 13) and an Action   *)
(* (low nibble <= 14); the parser's state is always one of the 14, and     *)
(* every byte stepped is stepped through such an entry, to its state.      *)
(***************************************************************************)
C6_TableTotality ==
  /\ AllEntriesDecode
  /\ parser.state \in States
  /\ (Len(chunks) >= 2 /\ Len(last_chunk) = 1) =>
       /\ valid_entry(pre.state, last_chunk[1])
       /\ action_of(pre.state, last_chunk[1]) \in Actions
       /\ parser.state = next_state_of(pre.state, last_chunk[1])

\* A byte above 0x7F has been stepped from DcsPassthrough.
C6_Witness ==
  /\ Len(chunks) = 2
  /\ pre.state = DcsPassthrough
  /\ last_chunk = <<255>>
  /\ parser.state = DcsPassthrough

(***************************************************************************)
(* C7: after a call whose last byte was dispatched as the final byte of a  *)
(* CSI or ESC sequence, the parser is in Ground and params, current_param, *)
(* intermediates and data_buffer are empty.                                *)
(***************************************************************************)
C7_GroundQuiescence ==
  (/\ Len(chunks) > 0
   /\ last_chunk # <<>>
   /\ ActionAt(pre, last_chunk, Len(last_chunk)) \in {ActEscDispatch, ActCsiDispatch})
  => /\ parser.state = Ground
     /\ parser.params = <<>>
     /\ parser.current_param = None
     /\ parser.intermediates = <<>>
     /\ parser.data_buffer = <<>>

\* The final byte of a CSI sequence with two parameters has been dispatched.
C7_Witness ==
  /\ Len(chunks) > 1
  /\ pre.state = CsiParam
  /\ pre.params # <<>>
  /\ pre.current_param # None
  /\ last_chunk # <<>>
  /\ ActionAt(pre, last_chunk, Len(last_chunk)) = ActCsiDispatch
  /\ parser.state = Ground

\* The two events of a synchronized update.
BeginSynchronizedUpdate == [type |-> "BeginSynchronizedUpdate"]

EndSynchronizedUpdate == [type |-> "EndSynchronizedUpdate"]

\* The call that opened the region still open after the first j calls, or 0.
RECURSIVE OpenedAt(_)
OpenedAt(j) ==
  IF j = 0 THEN 0
  ELSE IF chunks[j] = SyncEnd THEN 0
  ELSE IF chunks[j] = SyncBegin /\ OpenedAt(j - 1) = 0 THEN j
  ELSE OpenedAt(j - 1)

(***************************************************************************)
(* C8 as stated: ESC [ ? 2026 h is answered with BeginSynchronizedUpdate;  *)
(* while the region is open every call returns nothing; the closing        *)
(* ESC [ ? 2026 l is answered with the events of the region, in order,     *)
(* followed by EndSynchronizedUpdate.                                      *)
(***************************************************************************)
C8_SynchronizedUpdate ==
  Len(chunks) > 0 =>
    LET n == Len(chunks)
        open == OpenedAt(n - 1)
    IN /\ (open = 0 /\ last_chunk = SyncBegin) => last_output = <<BeginSynchronizedUpdate>>
       /\ (open > 0 /\ last_chunk # SyncEnd) => last_output = <<>>
       /\ (open > 0 /\ last_chunk = SyncEnd) =>
            last_output =
              Flatten([k \in 1..(n - 1 - open) |-> push(AnsiParserNew, chunks[open + k]).out])
                \o <<EndSynchronizedUpdate>>

(***************************************************************************)
(* The code table of C9, written by ranges.                                *)
(***************************************************************************)
Attributes ==
  << <<"Bold">>, <<"Faint">>, <<"Italic">>, <<"Underline">>,
     <<"BlinkSlow">>, <<"BlinkRapid">>, <<"Reverse">>, <<"Conceal">> >>

Colours == <<"Black", "Red", "Green", "Yellow", "Blue", "Magenta", "Cyan", "White">>

Named(prefix, k) ==
  LET name == Colours[k]
  IN CASE prefix = "Foreground" ->
            <<CASE name = "Black" -> "ForegroundBlack" [] name = "Red" -> "ForegroundRed"
                [] name = "Green" -> "ForegroundGreen" [] name = "Yellow" -> "ForegroundYellow"
                [] name = "Blue" -> "ForegroundBlue" [] name = "Magenta" -> "ForegroundMagenta"
                [] name = "Cyan" -> "ForegroundCyan" [] name = "White" -> "ForegroundWhite">>
       [] prefix = "Background" ->
            <<CASE name = "Black" -> "BackgroundBlack" [] name = "Red" -> "BackgroundRed"
                [] name = "Green" -> "BackgroundGreen" [] name = "Yellow" -> "BackgroundYellow"
                [] name = "Blue" -> "BackgroundBlue" [] name = "Magenta" -> "BackgroundMagenta"
                [] name = "Cyan" -> "BackgroundCyan" [] name = "White" -> "BackgroundWhite">>
       [] prefix = "ForegroundBright" ->
            <<CASE name = "Black" -> "ForegroundBrightBlack" [] name = "Red" -> "ForegroundBrightRed"
                [] name = "Green" -> "ForegroundBrightGreen"
                [] name = "Yellow" -> "ForegroundBrightYellow"
                [] name = "Blue" -> "ForegroundBrightBlue"
                [] name = "Magenta" -> "ForegroundBrightMagenta"
                [] name = "Cyan" -> "ForegroundBrightCyan"
                [] name = "White" -> "ForegroundBrightWhite">>
       [] prefix = "BackgroundBright" ->
            <<CASE name = "Black" -> "BackgroundBrightBlack" [] name = "Red" -> "BackgroundBrightRed"
                [] name = "Green" -> "BackgroundBrightGreen"
                [] name = "Yellow" -> "BackgroundBrightYellow"
                [] name = "Blue" -> "BackgroundBrightBlue"
                [] name = "Magenta" -> "BackgroundBrightMagenta"
                [] name = "Cyan" -> "BackgroundBrightCyan"
                [] name = "White" -> "BackgroundBrightWhite">>

BasicCode(code) ==
  IF code = 0 THEN <<"Reset">>
  ELSE IF code \in 1..8 THEN Attributes[code]
  ELSE IF code = 22 THEN <<"NormalIntensity">>
  ELSE IF code = 23 THEN <<"NotItalic">>
  ELSE IF code = 24 THEN <<"NotUnderline">>
  ELSE IF code = 28 THEN <<"Reveal">>
  ELSE IF code \in 30..37 THEN Named("Foreground", code - 29)
  ELSE IF code = 39 THEN <<"ForegroundDefault">>
  ELSE IF code \in 40..47 THEN Named("Background", code - 39)
  ELSE IF code = 49 THEN <<"BackgroundDefault">>
  ELSE IF code \in 90..97 THEN Named("ForegroundBright", code - 89)
  ELSE IF code \in 100..107 THEN Named("BackgroundBright", code - 99)
  ELSE SgrUnknown(code)

\* The parameters written between ESC [ and the final byte: the digits of
\* `bytes` from index i on, split at the semicolons, `acc` the parameter
\* being read.
RECURSIVE WireParams(_, _, _)
WireParams(bytes, i, acc) ==
  IF i > Len(bytes) THEN acc
  ELSE IF bytes[i] = SEMICOLON THEN acc \o WireParams(bytes, i + 1, <<0>>)
  ELSE IF bytes[i] \in 48..57
    THEN WireParams(bytes, i + 1,
                    IF acc = <<>> THEN <<bytes[i] - 48>>
                    ELSE <<acc[1] * 10 + (bytes[i] - 48)>>)
  ELSE acc

\* The parameters of the sequence ESC [ ... m that the last call completed.
SgrParams == WireParams(history, 3, <<>>)

SgrDispatched ==
  /\ Len(chunks) = 2
  /\ pre.state \in {CsiEntry, CsiParam}
  /\ last_chunk = <<109>>

(***************************************************************************)
(* C9: CSI ... m with neither 38 nor 48 among its parameters gives one Sgr *)
(* event for each parameter, in order, each mapped by the code table; CSI  *)
(* m without parameters gives one Sgr(Reset).                              *)
(***************************************************************************)
C9_SgrBasicCodes ==
  (/\ SgrDispatched
   /\ \A k \in 1..Len(SgrParams) : SgrParams[k] \notin {38, 48})
  => last_output =
       IF SgrParams = <<>> THEN <<Sgr(<<"Reset">>)>>
       ELSE [k \in 1..Len(SgrParams) |-> Sgr(BasicCode(SgrParams[k]))]

\* Three ordinary parameters, the last of them outside the table.
C9_Witness ==
  /\ SgrDispatched
  /\ SgrParams = <<1, 31, 300>>
  /\ last_output = <<Sgr(<<"Bold">>), Sgr(<<"ForegroundRed">>), Sgr(SgrUnknown(300))>>

\* The group at (1-based) index i of params: 3 or 5 parameters long, or 0
\* when the parameters that follow do not complete one.
GroupLen(params, i) ==
  IF i + 2 <= Len(params) /\ params[i + 1] = 5 THEN 3
  ELSE IF i + 4 <= Len(params) /\ params[i + 1] = 2 THEN 5
  ELSE 0

GroupEvent(params, i) ==
  LET fg == params[i] = 38
      c(k) == params[i + k] % 256
  IN IF GroupLen(params, i) = 3
       THEN Sgr(IF fg THEN Foreground8Bit(c(2)) ELSE Background8Bit(c(2)))
       ELSE Sgr(IF fg THEN ForegroundTrueColor(c(2), c(3), c(4))
                ELSE BackgroundTrueColor(c(2), c(3), c(4)))

\* Every 38 or 48 the walk meets from index i on starts a complete group.
RECURSIVE GroupsComplete(_, _)
GroupsComplete(params, i) ==
  IF i > Len(params) THEN TRUE
  ELSE IF params[i] \in {38, 48}
    THEN GroupLen(params, i) > 0 /\ GroupsComplete(params, i + GroupLen(params, i))
  ELSE GroupsComplete(params, i + 1)

RECURSIVE HasGroup(_, _)
HasGroup(params, i) ==
  IF i > Len(params) THEN FALSE
  ELSE IF params[i] \in {38, 48} THEN TRUE
  ELSE HasGroup(params, i + 1)

RECURSIVE ColourWalk(_, _)
ColourWalk(params, i) ==
  IF i > Len(params) THEN <<>>
  ELSE IF params[i] \in {38, 48}
    THEN <<GroupEvent(params, i)>> \o ColourWalk(params, i + GroupLen(params, i))
  ELSE <<Sgr(BasicCode(params[i]))>> \o ColourWalk(params, i + 1)

(***************************************************************************)
(* C10: at a parameter 38 (48) followed by 5 and one more parameter the    *)
(* walker emits Foreground8Bit (Background8Bit) of that parameter modulo   *)
(* 256 and goes on three places further; followed by 2 and three more      *)
(* parameters it emits ForegroundTrueColor (BackgroundTrueColor) of those  *)
(* three modulo 256 and goes on five places further; the parameters around *)
(* the group are mapped as ordinary codes.                                 *)
(***************************************************************************)
C10_SgrExtendedColours ==
  (/\ SgrDispatched
   /\ HasGroup(SgrParams, 1)
   /\ GroupsComplete(SgrParams, 1))
  => last_output = ColourWalk(SgrParams, 1)

\* A true-colour group with a component above 255, between two ordinary codes.
C10_Witness ==
  /\ SgrDispatched
  /\ SgrParams = <<1, 48, 2, 256, 5, 511, 42>>
  /\ last_output = <<Sgr(<<"Bold">>), Sgr(BackgroundTrueColor(0, 5, 255)),
                     Sgr(<<"BackgroundGreen">>)>>

(***************************************************************************)
(* C11 as stated: CSI ... m whose parameters are a 38 (or 48) followed by  *)
(* an incomplete colour group (nothing, only the subtype 5, or the subtype *)
(* 2 with fewer than three components) gives exactly one event,            *)
(* Sgr(Unknown(38)) (or Unknown(48)): no parameter of the partial group    *)
(* comes out as an event of its own.                                       *)
(***************************************************************************)
C11_TruncatedColour ==
  (/\ SgrDispatched
   /\ SgrParams # <<>>
   /\ SgrParams[1] \in {38, 48}
   /\ \/ Len(SgrParams) = 1
      \/ Len(SgrParams) = 2 /\ SgrParams[2] = 5
      \/ Len(SgrParams) \in 2..4 /\ SgrParams[2] = 2)
  => last_output = <<Sgr(SgrUnknown(SgrParams[1]))>>

(***************************************************************************)
(* SpecCsi: a parser that has read ESC [ or ESC [ ?, then a parameter      *)
(* string, then reads one final byte.  The strings: every string of up to  *)
(* MaxCsiBytes bytes of CsiAlphabet (digits and the semicolon), and the    *)
(* mode numbers 25, 1049 and 999.                                          *)
(***************************************************************************)
MaxCsiBytes == 4

CsiAlphabet == {48, 49, 50, 51, 53, SEMICOLON}

ModeStrings == { <<50, 53>>, <<49, 48, 52, 57>>, <<57, 57, 57>> }

CsiParamStrings == SeqsOfLen(CsiAlphabet, 0, MaxCsiBytes) \cup ModeStrings

CsiPrefixes == { <<ESC, 91>>, <<ESC, 91, QUESTION>> }

\* A B C D H f G J K P @ h l m
CsiFinals == {65, 66, 67, 68, 72, 102, 71, 74, 75, 80, 64, 104, 108, 109}

InitCsi ==
  \E prefix \in CsiPrefixes : \E s \in CsiParamStrings : InitAfter(prefix \o s)

NextCsi == \E final \in CsiFinals : Len(chunks) = 1 /\ Push(<<final>>)

SpecCsi == InitCsi /\ [][NextCsi]_vars

(***************************************************************************)
(* The sequence ESC [ (?) body final of SpecCsi, as it is written.         *)
(***************************************************************************)
CsiDispatched == Len(chunks) = 2 /\ Len(last_chunk) = 1

CsiQuestion == Len(chunks[1]) >= 3 /\ chunks[1][3] = QUESTION

CsiBody == SubSeq(chunks[1], IF CsiQuestion THEN 4 ELSE 3, Len(chunks[1]))

CsiFinal == last_chunk[1]

\* The pieces of `bytes` between its semicolons: one more than semicolons.
RECURSIVE Slots(_)
Slots(bytes) ==
  LET at == {k \in 1..Len(bytes) : bytes[k] = SEMICOLON}
      first == CHOOSE k \in at : \A j \in at : k <= j
  IN IF at = {} THEN <<bytes>>
     ELSE <<SubSeq(bytes, 1, first - 1)>> \o Slots(SubSeq(bytes, first + 1, Len(bytes)))

\* The number a string of digits writes; 0 for the empty string.
RECURSIVE DecimalValue(_)
DecimalValue(digits) ==
  IF digits = <<>> THEN 0
  ELSE 10 * DecimalValue(SubSeq(digits, 1, Len(digits) - 1)) + (digits[Len(digits)] - 48)

\* The value of slot k of the body; 0 when the slot is empty or missing.
SlotValue(k) ==
  IF k <= Len(Slots(CsiBody)) THEN DecimalValue(Slots(CsiBody)[k]) ELSE 0

(***************************************************************************)
(* C12 as stated: the last parameter is finalised even when it has no      *)
(* digits: a CSI sequence with k >= 1 semicolons is dispatched with k + 1  *)
(* parameters, the empty ones being 0; with the final byte m it gives one  *)
(* Sgr event for each of the k + 1 (ESC [ ; ; m gives three Sgr(Reset)).   *)
(***************************************************************************)
C12_TrailingEmptyParameter ==
  (/\ CsiDispatched
   /\ ~CsiQuestion
   /\ CsiFinal = 109
   /\ Len(Slots(CsiBody)) >= 2)
  => last_output = [k \in 1..Len(Slots(CsiBody)) |-> Sgr(BasicCode(SlotValue(k)))]

(***************************************************************************)
(* C13: CSI n A / B / C / D / P / @ without intermediates gives exactly    *)
(* one CursorUp / CursorDown / CursorForward / CursorBackward / Delete /   *)
(* InsertSpaces(n), n the first parameter as written (0 stays 0, leading   *)
(* zeros do not count), and n = 1 when no parameter was written.           *)
(***************************************************************************)
Counted(final, n) ==
  IF final = 65 THEN CursorUp(n)
  ELSE IF final = 66 THEN CursorDown(n)
  ELSE IF final = 67 THEN CursorForward(n)
  ELSE IF final = 68 THEN CursorBackward(n)
  ELSE IF final = 80 THEN Delete(n)
  ELSE InsertSpaces(n)

AtLeastOne(v) == IF v = 0 THEN 1 ELSE v

C14_CursorPositioning ==
  /\ (/\ CsiDispatched
      /\ ~CsiQuestion
      /\ CsiFinal \in {72, 102})
     => last_output = <<SetCursorPos(Some(AtLeastOne(SlotValue(2))),
                                     Some(AtLeastOne(SlotValue(1))))>>
  /\ (/\ CsiDispatched
      /\ ~CsiQuestion
      /\ CsiFinal = 71)
     => last_output = <<SetCursorPos(Some(AtLeastOne(SlotValue(1))), None)>>
  /\ \A k \in 1..Len(all_output) :
       all_output[k].type = "SetCursorPos" =>
         /\ all_output[k].x # None
         /\ all_output[k].x[1] >= 1
         /\ all_output[k].y # None => all_output[k].y[1] >= 1

\* ESC [ 0 ; 2 5 H: a row written as 0.
C14_Witness ==
  /\ CsiDispatched
  /\ chunks[1] = <<ESC, 91, 48, 59, 50, 53>>
  /\ CsiFinal = 72
  /\ last_output = <<SetCursorPos(Some(25), Some(1))>>

(***************************************************************************)
(* C15: CSI J gives ClearForwards for a first parameter 0 or absent,       *)
(* ClearAll for 2 or 3, nothing for any other value; CSI K gives           *)
(* ClearLineForwards for 0, absent or 2, Backspace for 1, nothing for any  *)
(* other value.  There is at most one event, and the parser is in Ground.  *)
(***************************************************************************)
C15_EraseMapping ==
  (/\ CsiDispatched
   /\ ~CsiQuestion
   /\ CsiFinal \in {74, 75})
  => /\ parser.state = Ground
     /\ last_output =
          IF CsiFinal = 74
            THEN (IF SlotValue(1) = 0 THEN <<ClearForwards>>
                  ELSE IF SlotValue(1) \in {2, 3} THEN <<ClearAll>>
                  ELSE <<>>)
            ELSE (IF SlotValue(1) \in {0, 2} THEN <<ClearLineForwards>>
                  ELSE IF SlotValue(1) = 1 THEN <<Backspace>>
                  ELSE <<>>)

\* ESC [ 3 J, and the parser back in Ground.
C15_Witness ==
  /\ CsiDispatched
  /\ chunks[1] = <<ESC, 91, 51>>
  /\ CsiFinal = 74
  /\ last_output = <<ClearAll>>
  /\ parser.state = Ground

(***************************************************************************)
(* C16: ESC [ ? 25 h / l give exactly SetCursorVisibility(true / false),   *)
(* ESC [ ? 1049 h / l exactly EnterAltScreen / ExitAltScreen, ESC [ ? 1 h  *)
(* / l exactly SetMode(Decckm) / ResetMode(Decckm); a mode number that is  *)
(* none of these gives no event.                                           *)
(***************************************************************************)
C16_PrivateModes ==
  (/\ CsiDispatched
   /\ CsiQuestion
   /\ CsiBody # <<>>
   /\ Len(Slots(CsiBody)) = 1
   /\ CsiFinal \in {104, 108})
  => last_output =
       LET set == CsiFinal = 104
           mode == SlotValue(1)
       IN IF mode = 25 THEN <<SetCursorVisibility(set)>>
          ELSE IF mode = 1049 THEN <<IF set THEN EnterAltScreen ELSE ExitAltScreen>>
          ELSE IF mode = 1 THEN <<IF set THEN SetMode(Decckm) ELSE ResetMode(Decckm)>>
          ELSE <<>>

\* ESC [ ? 1 0 4 9 l.
C16_Witness ==
  /\ CsiDispatched
  /\ chunks[1] = <<ESC, 91, QUESTION, 49, 48, 52, 57>>
  /\ CsiFinal = 108
  /\ last_output = <<ExitAltScreen>>

\* One byte has been given to a parser that was in `state`.
Probed(state) == Len(chunks) >= 2 /\ pre.state = state /\ Len(last_chunk) = 1

\* The events of the specification that the source does not declare.
DeviceControl(code) == [type |-> "DeviceControl", code |-> code]

ConfigureCharset(index, charset) ==
  [type |-> "ConfigureCharset", index |-> index, charset |-> charset]

SetActiveCharset(index) == [type |-> "SetActiveCharset", index |-> index]

(***************************************************************************)
(* C17 as stated: in Ground the byte 0x08 or 0x7F gives Backspace, 0x0A,   *)
(* 0x0B and 0x0C give Newline, 0x0D gives CarriageReturn, 0x11..0x14 give  *)
(* DeviceControl{code}; every other C0 byte but 0x0E and 0x0F (and ESC,    *)
(* which opens a sequence) gives no event; the parser stays in Ground.     *)
(***************************************************************************)
C17_C0Execution ==
  (/\ Probed(Ground)
   /\ last_chunk[1] \in (0..31 \cup {DEL}) \ {14, 15, ESC})
  => /\ parser.state = Ground
     /\ last_output =
          LET byte == last_chunk[1]
          IN IF byte \in {BS, DEL} THEN <<Backspace>>
             ELSE IF byte \in {LF, VT, FF} THEN <<Newline>>
             ELSE IF byte = CR THEN <<CarriageReturn>>
             ELSE IF byte \in 17..20 THEN <<DeviceControl(byte)>>
             ELSE <<>>

(***************************************************************************)
(* C18: without intermediates ESC D and ESC E give exactly Newline, ESC M  *)
(* gives exactly CursorUp(1), ESC \ and every other ESC final give         *)
(* nothing; afterwards the parser is in Ground and params and              *)
(* intermediates are empty.                                                *)
(***************************************************************************)
\* The bytes that end an ESC sequence: 0x30..0x7E but P [ ] _, which open a
\* DCS, CSI, OSC and APC sequence.
EscFinals == (48..126) \ {80, 91, 93, 95}

C18_EscDispatch ==
  (/\ Probed(Escape)
   /\ pre.intermediates = <<>>
   /\ last_chunk[1] \in EscFinals)
  => /\ last_output =
          (IF last_chunk[1] \in {68, 69} THEN <<Newline>>
           ELSE IF last_chunk[1] = 77 THEN <<CursorUp(1)>>
           ELSE <<>>)
     /\ parser.state = Ground
     /\ parser.params = <<>>
     /\ parser.intermediates = <<>>

\* ESC M.
C18_Witness ==
  /\ Probed(Escape)
  /\ chunks[1] = <<ESC>>
  /\ last_chunk = <<77>>
  /\ last_output = <<CursorUp(1)>>
  /\ parser.state = Ground

(***************************************************************************)
(* C19 as stated: ESC ( c, ESC ) c, ESC * c and ESC + c with c = B or 0    *)
(* give ConfigureCharset for G0, G1, G2 and G3 (Ascii for B, LineDrawing   *)
(* for 0); Shift-Out 0x0E and Shift-In 0x0F give SetActiveCharset of G1    *)
(* and G0.                                                                 *)
(***************************************************************************)
C19_CharsetControl ==
  /\ (/\ Probed(EscapeIntermediate)
      /\ Len(pre.intermediates) = 1
      /\ pre.intermediates[1] \in 40..43
      /\ last_chunk[1] \in {66, 48})
     => last_output =
          <<ConfigureCharset(pre.intermediates[1] - 40,
                             IF last_chunk[1] = 66 THEN "Ascii" ELSE "LineDrawing")>>
  /\ (Probed(Ground) /\ last_chunk[1] = 14) => last_output = <<SetActiveCharset(1)>>
  /\ (Probed(Ground) /\ last_chunk[1] = 15) => last_output = <<SetActiveCharset(0)>>

(***************************************************************************)
(* SpecOsc: a parser that has read ESC ] and the body of an OSC string,    *)
(* then reads BEL or ESC \.  The bodies: every string of up to MaxOscBytes *)
(* bytes of OscAlphabet (0 8 + ; u and 0xC3), and three long ones, two of  *)
(* them with the largest command number.                                   *)
(***************************************************************************)
MaxOscBytes == 4

OscAlphabet == {48, 56, 43, SEMICOLON, 117, 195}

OscLongBodies ==
  { Decimal(UsizeMax) \o <<SEMICOLON, 117>>,
    <<43, 48>> \o Decimal(UsizeMax) \o <<SEMICOLON, 117>>,
    <<53, 50, SEMICOLON>> \o Decimal(UsizeMax) }

OscBodies == SeqsOfLen(OscAlphabet, 0, MaxOscBytes) \cup OscLongBodies

OscTerminators == { <<BEL>>, <<ESC, 92>> }

InitOsc == \E body \in OscBodies : InitAfter(<<ESC, 93>> \o body)

NextOsc == \E incoming \in OscTerminators : Len(chunks) = 1 /\ Push(incoming)

SpecOsc == InitOsc /\ [][NextOsc]_vars

(***************************************************************************)
(* The string ESC ] left ; right of SpecOsc, as it is written.             *)
(***************************************************************************)
OscBody == SubSeq(chunks[1], 3, Len(chunks[1]))

OscEnded == Len(chunks) = 2 /\ \E k \in 1..Len(OscBody) : OscBody[k] = SEMICOLON

OscLeft == Slots(OscBody)[1]

OscRight == SubSeq(OscBody, Len(OscLeft) + 2, Len(OscBody))

AllDigits(s) == s # <<>> /\ \A k \in 1..Len(s) : s[k] \in 48..57

\* A string of digits without its leading zeros (the last digit stays).
RECURSIVE Significant(_)
Significant(s) == IF Len(s) > 1 /\ s[1] = 48 THEN Significant(Tail(s)) ELSE s

\* s, a string of digits without leading zeros, writes a number <= UsizeMax.
FitsUsize(s) ==
  LET top == Decimal(UsizeMax)
  IN \/ Len(s) < Len(top)
     \/ /\ Len(s) = Len(top)
        /\ \A k \in 1..Len(s) : s[k] > top[k] => \E j \in 1..(k - 1) : s[j] < top[j]

\* The one Osc event and the state the statement of C20 describes, for a
\* command number written as `written` (<<48>> stands for 0).
OscResult(written) ==
  /\ last_output # <<>>
  /\ last_output[1].type = "Osc"
  /\ Len(last_output) = 1
  /\ Decimal(last_output[1].command) = written
  /\ last_output[1].payload = OscRight
  /\ parser.osc_buffer = <<>>
  /\ parser.state = Ground

(***************************************************************************)
(* C20 as stated: ESC ] left ; right ended by BEL or ESC \ gives exactly   *)
(* one Osc event, its command the decimal value of left (0 when left is    *)
(* not a decimal number: not a string of digits), its payload every byte   *)
(* after the first semicolon; afterwards osc_buffer is empty and the       *)
(* parser is in Ground.                                                    *)
(***************************************************************************)
C20_OscFinaliser ==
  OscEnded => OscResult(IF AllDigits(OscLeft) THEN Significant(OscLeft) ELSE <<48>>)

(***************************************************************************)
(* C20, amended: the command is the value of left when left is one or more *)
(* digits, with or without one + before them, that write a number of at    *)
(* most usize::MAX, and 0 otherwise; the rest as stated.                   *)
(***************************************************************************)
Unsigned(s) == IF Len(s) > 1 /\ s[1] = 43 THEN Tail(s) ELSE s

C20_OscFinaliserParsed ==
  OscEnded =>
    OscResult(IF AllDigits(Unsigned(OscLeft)) /\ FitsUsize(Significant(Unsigned(OscLeft)))
                THEN Significant(Unsigned(OscLeft))
                ELSE <<48>>)

\* OSC 8 ; ; u ended by ESC \: the later semicolon stays in the payload.
C20_Witness ==
  /\ OscEnded
  /\ OscBody = <<56, SEMICOLON, SEMICOLON, 117>>
  /\ last_chunk = <<ESC, 92>>
  /\ last_output = <<Osc(8, <<SEMICOLON, 117>>)>>
  /\ parser.state = Ground

(***************************************************************************)
(* An OSC string of SpecOsc without a semicolon, ended: ESC ] body BEL or   *)
(* ESC ] body ESC \, body not empty.                                        *)
(***************************************************************************)
OscBare ==
  /\ Len(chunks) = 2
  /\ OscBody # <<>>
  /\ \A k \in 1..Len(OscBody) : OscBody[k] # SEMICOLON

\* The one Osc event of a string without a semicolon, for a command number
\* written as `written` (<<48>> stands for 0): its payload is the whole body.
OscBareResult(written) ==
  /\ Len(last_output) = 1
  /\ last_output[1].type = "Osc"
  /\ Decimal(last_output[1].command) = written
  /\ last_output[1].payload = OscBody

SetHyperlink(id, uri) == [type |-> "SetHyperlink", id |-> id, uri |-> uri]

ClearHyperlink == [type |-> "ClearHyperlink"]

Osc8Ended ==
  /\ OscEnded
  /\ AllDigits(Unsigned(OscLeft))
  /\ Significant(Unsigned(OscLeft)) = <<56>>

HasSecondSeparator == \E k \in 1..Len(OscRight) : OscRight[k] = SEMICOLON

HyperlinkParams == Slots(OscRight)[1]

HyperlinkUri == SubSeq(OscRight, Len(HyperlinkParams) + 2, Len(OscRight))

\* The bytes of SpecOsc are ASCII but 0xC3, which opens a two-byte UTF-8
\* character and is followed by no continuation byte here.
ValidUtf8(s) == \A k \in 1..Len(s) : s[k] < 128

IsHyperlinkEvent(e) == e.type \in {"SetHyperlink", "ClearHyperlink"}

MaxDcsHeader == 3

MaxDcsPayload == 2

MaxDcsPushes == 2

DcsHeaderAlphabet == {49, SEMICOLON, 36}

DcsFinals == {113, 80}

DcsPayloadAlphabet == {68, 49, SEMICOLON, 36}

DcsTerminators == { <<BEL>>, <<ESC, 92>> }

InitDcs ==
  \E header \in SeqsOfLen(DcsHeaderAlphabet, 0, MaxDcsHeader) :
    \E final \in DcsFinals :
      \E payload \in SeqsOfLen(DcsPayloadAlphabet, 0, MaxDcsPayload) :
        InitAfter(<<ESC, 80>> \o header \o <<final>> \o payload)

NextDcs ==
  \E incoming \in DcsTerminators : Len(chunks) < 1 + MaxDcsPushes /\ Push(incoming)

SpecDcs == InitDcs /\ [][NextDcs]_vars

(***************************************************************************)
(* The string ESC P header final payload of SpecDcs, as it is written: the  *)
(* final byte is the first byte from 0x40 on, the header is parameters      *)
(* (digits and semicolons) followed by intermediates (0x20..0x2F).          *)
(***************************************************************************)
DcsFinalAt ==
  CHOOSE k \in 3..Len(chunks[1]) :
    chunks[1][k] >= 64 /\ \A j \in 3..(k - 1) : chunks[1][j] < 64

DcsHeader == SubSeq(chunks[1], 3, DcsFinalAt - 1)

DcsFinal == chunks[1][DcsFinalAt]

DcsPayload == SubSeq(chunks[1], DcsFinalAt + 1, Len(chunks[1]))

IsParamByte(b) == b \in 48..57 \/ b = SEMICOLON

DcsParamLen ==
  CHOOSE n \in 0..Len(DcsHeader) :
    /\ \A k \in 1..n : IsParamByte(DcsHeader[k])
    /\ n < Len(DcsHeader) => ~IsParamByte(DcsHeader[n + 1])

DcsParamPart == SubSeq(DcsHeader, 1, DcsParamLen)

DcsIntermediatePart == SubSeq(DcsHeader, DcsParamLen + 1, Len(DcsHeader))

DcsWellFormed == \A k \in 1..Len(DcsIntermediatePart) : DcsIntermediatePart[k] \in 32..47

\* A well-formed DCS string followed at once by ESC \.
DcsEnded == Len(chunks) = 2 /\ last_chunk = <<ESC, 92>> /\ DcsWellFormed

OneDcsEvent == Len(last_output) = 1 /\ last_output[1].type = "DeviceControlString"

(***************************************************************************)
(* C23 as stated: ESC P [params] [intermediates] F data ESC \ gives a       *)
(* DeviceControlString whose data is the final byte F followed by the       *)
(* payload bytes in order.                                                  *)
(***************************************************************************)
C23_DcsDataIncludesFinal ==
  DcsEnded => /\ OneDcsEvent
              /\ last_output[1].data = <<DcsFinal>> \o DcsPayload

\* The parameters a header writes: none when it writes no parameter byte,
\* otherwise one for each piece between semicolons, an empty piece being 0.
DcsWrittenParams ==
  IF DcsParamPart = <<>> THEN <<>>
  ELSE [k \in 1..Len(Slots(DcsParamPart)) |-> DecimalValue(Slots(DcsParamPart)[k])]

(***************************************************************************)
(* C24 as stated: the params and intermediates of the DeviceControlString   *)
(* are the semicolon-separated decimal parameters and the intermediate      *)
(* bytes written between ESC P and the final byte, whatever digits,         *)
(* semicolons and intermediate bytes the payload holds; after the event     *)
(* dcs_buffer, dcs_params_cache and dcs_intermediates_cache are empty.      *)
(***************************************************************************)
C24_DcsHeaderSnapshot ==
  DcsEnded => /\ OneDcsEvent
              /\ last_output[1].params = DcsWrittenParams
              /\ last_output[1].intermediates = DcsIntermediatePart
              /\ parser.dcs_buffer = <<>>
              /\ parser.dcs_params_cache = <<>>
              /\ parser.dcs_intermediates_cache = <<>>

\* The bytes pushed after the first chunk and before the last one.
DcsBetween == Flatten(SubSeq(chunks, 2, Len(chunks) - 1))

\* `data` is `bytes`, with or without the final byte of the header before it.
DataCarries(data, bytes) == data = bytes \/ data = <<DcsFinal>> \o bytes

(***************************************************************************)
(* C25 as stated: a DCS string in passthrough is ended by BEL and by ESC \; *)
(* either gives exactly one DeviceControlString event, and the terminator   *)
(* is not part of its data.                                                 *)
(***************************************************************************)
C25_DcsTerminators ==
  (Len(chunks) = 2 /\ DcsWellFormed)
    => /\ OneDcsEvent
       /\ DataCarries(last_output[1].data, DcsPayload)

(***************************************************************************)
(* C25, amended: a DCS string in passthrough is ended by ESC \ only.  BEL   *)
(* gives no event and is one more byte of the data; ESC \ gives exactly one *)
(* DeviceControlString event, and neither ESC nor \ is part of its data.    *)
(***************************************************************************)
C25_DcsEndsAtEscOnly ==
  (Len(chunks) >= 2 /\ DcsWellFormed /\ pre.state = DcsPassthrough)
    => /\ last_chunk = <<BEL>>
            => /\ last_output = <<>>
               /\ parser.state = DcsPassthrough
               /\ parser.dcs_buffer = Append(pre.dcs_buffer, BEL)
       /\ last_chunk = <<ESC, 92>>
            => /\ OneDcsEvent
               /\ DataCarries(last_output[1].data, DcsPayload \o DcsBetween)
               /\ parser.state = Ground

\* ESC P 1 q D, then BEL, then ESC \: one event, the BEL in its data.
C25_Witness ==
  /\ chunks = << <<ESC, 80, 49, 113, 68>>, <<BEL>>, <<ESC, 92>> >>
  /\ outputs[2] = <<>>
  /\ OneDcsEvent
  /\ last_output[1].data[Len(last_output[1].data)] = BEL
  /\ parser.state = Ground

(***************************************************************************)
(* C26 as stated: ESC X, ESC ^ and ESC _ (0x58, 0x5E, 0x5F) put the parser  *)
(* in SosPmApcString with no event, and there every byte but ESC is         *)
(* ignored: no event, in particular no Data event, and the state stays.     *)
(***************************************************************************)
C26_SosPmApcConsumed ==
  /\ (Probed(Escape) /\ last_chunk[1] \in {88, 94, 95})
       => /\ parser.state = SosPmApcString
          /\ last_output = <<>>
  /\ (Probed(SosPmApcString) /\ last_chunk[1] # ESC)
       => /\ parser.state = SosPmApcString
          /\ last_output = <<>>
          /\ parser.data_buffer = <<>>

(***************************************************************************)
(* SpecParam: a parser that has read ESC [, ESC [ 5 ; or ESC P and a        *)
(* string of digits, short or around usize::MAX, and then reads up to       *)
(* MaxMoreDigits more digits, one in each call.                             *)
(***************************************************************************)
MaxMoreDigits == 2

MaxShortDigits == 2

ParamPrefixes == { <<ESC, 91>>, <<ESC, 91, 53, SEMICOLON>>, <<ESC, 80>> }

LongDigitStrings ==
  { Decimal(UsizeMax \div 10),
    Decimal(UsizeMax - 1),
    Decimal(UsizeMax),
    <<48, 48>> \o Decimal(UsizeMax),
    Decimal(UsizeMax \div 10) \o <<56>>,
    Decimal(UsizeMax \div 10 + 1),
    <<57, 57, 57, 57, 57, 57, 57, 57, 57, 57, 57, 57>> }

DigitStrings == SeqsOfLen({48, 57}, 0, MaxShortDigits) \cup LongDigitStrings

InitParam ==
  \E prefix \in ParamPrefixes : \E digits \in DigitStrings : InitAfter(prefix \o digits)

NextParam ==
  \E digit \in 48..57 : Len(chunks) < 1 + MaxMoreDigits /\ Push(<<digit>>)

SpecParam == InitParam /\ [][NextParam]_vars

\* The digits written in the parameter slot that is open: the bytes after
\* the last semicolon, or after the two bytes that open the sequence.
SlotDigits ==
  LET at == {k \in 1..Len(history) : history[k] = SEMICOLON}
      from == IF at = {} THEN 2 ELSE CHOOSE k \in at : \A j \in at : j <= k
  IN SubSeq(history, from + 1, Len(history))

(***************************************************************************)
(* C27: the value accumulated for the digits of a CSI or DCS parameter slot *)
(* is their decimal value when that is at most usize::MAX and usize::MAX    *)
(* otherwise: it never wraps, never fails (the parser stays in CsiParam or  *)
(* DcsParam and emits nothing), and once at the maximum it stays there.     *)
(***************************************************************************)
C27_SaturatingAccumulation ==
  SlotDigits # <<>> =>
    /\ parser.state \in {CsiParam, DcsParam}
    /\ last_output = <<>>
    /\ parser.current_param # None
    /\ IF FitsUsize(Significant(SlotDigits))
         THEN Decimal(parser.current_param[1]) = Significant(SlotDigits)
         ELSE parser.current_param[1] = UsizeMax
    /\ (Len(chunks) >= 2 /\ pre.current_param = Some(UsizeMax))
         => parser.current_param = Some(UsizeMax)

\* ESC [ 214748364, then 8: one more than the maximum, kept at the maximum;
\* then 0: still the maximum.
C27_Witness ==
  /\ chunks = << <<ESC, 91>> \o Decimal(UsizeMax \div 10), <<56>>, <<48>> >>
  /\ pre.current_param = Some(UsizeMax)
  /\ parser.current_param = Some(UsizeMax)
  /\ parser.state = CsiParam

(***************************************************************************)
(* SpecUnknown: a parser that has read an earlier chunk ending in Ground,   *)
(* then reads a whole CSI sequence whose final byte the dispatcher does not *)
(* know, then a later chunk.                                                *)
(***************************************************************************)
EarlierChunks == { <<>>, <<97>>, <<ESC, 91, 51, 49, 109>>, <<ESC, 93, 48, BEL>> }

UnknownBodies ==
  { <<>>, <<57, 57, 57>>, <<49, SEMICOLON, 50>>, <<SEMICOLON>>, <<53, 32>>,
    <<QUESTION, 53>> }

\* The final bytes 0x40..0x7E but [ ] _ (which no CSI state dispatches) and
\* the finals perform_csi_dispatch matches.
UnknownFinals == (64..126) \ (CsiFinals \cup {91, 93, 95})

LaterChunks ==
  { <<97>>, <<109>>, <<49, SEMICOLON>>, <<ESC, 91, 109>>, <<ESC, 91, 65>>,
    <<ESC, 91, SEMICOLON, 53, 72>>, <<ESC, 77>>, <<ESC, 93, 48, SEMICOLON, 84, BEL>>,
    <<ESC, 80, 113, 68, ESC, 92>>, <<32, 113>> }

InitUnknown == \E earlier \in EarlierChunks : InitAfter(earlier)

PushUnknown ==
  \E body \in UnknownBodies : \E final \in UnknownFinals :
    Len(chunks) = 1 /\ Push(<<ESC, 91>> \o body \o <<final>>)

PushLater == \E later \in LaterChunks : Len(chunks) = 2 /\ Push(later)

NextUnknown == PushUnknown \/ PushLater

SpecUnknown == InitUnknown /\ [][NextUnknown]_vars

(***************************************************************************)
(* C28: a well-formed CSI sequence with an unrecognised final byte gives no *)
(* event and leaves the parser in Ground with params and intermediates      *)
(* cleared; the events of a later chunk are those the parser gives when the *)
(* unknown sequence is not pushed at all.                                   *)
(***************************************************************************)
C28_UnknownSequencesSilent ==
  /\ Len(chunks) = 2
       => /\ last_output = <<>>
          /\ parser.state = Ground
          /\ parser.params = <<>>
          /\ parser.current_param = None
          /\ parser.intermediates = <<>>
  /\ Len(chunks) = 3
       => /\ outputs[2] = <<>>
          /\ last_output = push(push(AnsiParserNew, chunks[1]).p, chunks[3]).out

\* a, then ESC [ 9 9 9 X, then ESC [ ; 5 H: nothing, then SetCursorPos(5, 1).
C28_Witness ==
  /\ chunks = << <<97>>, <<ESC, 91, 57, 57, 57, 88>>, <<ESC, 91, SEMICOLON, 53, 72>> >>
  /\ outputs = << <<Data(<<97>>)>>, <<>>, <<SetCursorPos(Some(5), Some(1))>> >>
  /\ parser.state = Ground

(***************************************************************************)
(* C29 as stated: whenever the parser is in Ground, params, current_param,  *)
(* intermediates, osc_buffer and dcs_buffer are empty, also when Ground was *)
(* reached from CsiIgnore, DcsIgnore or EscapeIntermediate.                 *)
(***************************************************************************)
C29_GroundInvariant ==
  parser.state = Ground
    => /\ parser.params = <<>>
       /\ parser.current_param = None
       /\ parser.intermediates = <<>>
       /\ parser.osc_buffer = <<>>
       /\ parser.dcs_buffer = <<>>

(***************************************************************************)
(* SpecRestart: a parser that has read ESC [ and up to MaxRestartBody bytes *)
(* of 3 1 ; SP and 0xC3 (so that it is in CsiEntry, CsiParam,               *)
(* CsiIntermediate or CsiIgnore), then reads ESC, then the rest of a new    *)
(* sequence.                                                                *)
(***************************************************************************)
MaxRestartBody == 3

RestartAlphabet == {51, 49, SEMICOLON, 32, 195}

RestartTails ==
  { <<91, 52, 50, 109>>, <<91, 109>>, <<91, 65>>, <<68>>, <<77>>,
    <<93, 48, SEMICOLON, 84, BEL>> }

InitRestart ==
  \E body \in SeqsOfLen(RestartAlphabet, 0, MaxRestartBody) : InitAfter(<<ESC, 91>> \o body)

PushEsc == Len(chunks) = 1 /\ Push(<<ESC>>)

PushTail == \E tail \in RestartTails : Len(chunks) = 2 /\ Push(tail)

NextRestart == PushEsc \/ PushTail

SpecRestart == InitRestart /\ [][NextRestart]_vars

CsiStates == {CsiEntry, CsiParam, CsiIntermediate, CsiIgnore}

(***************************************************************************)
(* C30: an ESC byte read in CsiEntry, CsiParam, CsiIntermediate or          *)
(* CsiIgnore abandons the sequence in progress: no event for it, params,    *)
(* current_param and intermediates cleared, state Escape; the only events   *)
(* are those of the sequence the ESC opens (ESC [ 3 1 ESC [ 4 2 m gives     *)
(* Sgr(BackgroundGreen) alone).                                             *)
(***************************************************************************)
C30_EscRestarts ==
  /\ (Len(chunks) >= 2 /\ pre.state \in CsiStates /\ last_chunk = <<ESC>>)
       => /\ all_output = <<>>
          /\ parser.state = Escape
          /\ parser.params = <<>>
          /\ parser.current_param = None
          /\ parser.intermediates = <<>>
  /\ (Len(chunks) = 3 /\ chunks[2] = <<ESC>>)
       => all_output = push(AnsiParserNew, <<ESC>> \o chunks[3]).out

\* ESC [ 3 1, then ESC, then [ 4 2 m.
C30_Witness ==
  /\ chunks = << <<ESC, 91, 51, 49>>, <<ESC>>, <<91, 52, 50, 109>> >>
  /\ all_output = <<Sgr(<<"BackgroundGreen">>)>>
  /\ parser.state = Ground

(***************************************************************************)
(* SpecIgnore: a parser that has read ESC [ and up to MaxIgnoreBody bytes   *)
(* of 1, SP and 0xC3 (so that it is in CsiEntry, CsiParam, CsiIntermediate  *)
(* or CsiIgnore, with or without parameters and intermediates), and then    *)
(* reads up to MaxIgnoreProbes bytes, one in each call.                     *)
(***************************************************************************)
MaxIgnoreBody == 3

MaxIgnoreProbes == 2

IgnoreAlphabet == {49, 32, 195}

IgnoreProbes == {0, LF, DEL, 49, QUESTION, 32, 65, 109, 80, 91, 195, ESC}

InitIgnore ==
  \E body \in SeqsOfLen(IgnoreAlphabet, 0, MaxIgnoreBody) : InitAfter(<<ESC, 91>> \o body)

NextIgnore ==
  \E byte \in IgnoreProbes : Len(chunks) < 1 + MaxIgnoreProbes /\ Push(<<byte>>)

SpecIgnore == InitIgnore /\ [][NextIgnore]_vars

\* The bytes of class Exe, and the event each gives when it is executed.
IsC0(byte) == byte \in (0..31) \ {ESC} \/ byte = DEL

ExecutedEvents(byte) ==
  IF byte \in {BS, DEL} THEN <<Backspace>>
  ELSE IF byte \in {LF, VT, FF} THEN <<Newline>>
  ELSE IF byte = CR THEN <<CarriageReturn>>
  ELSE <<>>

\* The final bytes of a CSI sequence for this parser: 0x40..0x7E but [ ] _.
IsCsiFinal(byte) == byte \in (64..126) \ {91, 93, 95}

(***************************************************************************)
(* C31: a parameter byte (0x30..0x3F) after an intermediate byte puts the   *)
(* parser in CsiIgnore with no event; in CsiIgnore a C0 byte gives its own  *)
(* event and nothing else, every other byte gives no event, and the final   *)
(* byte takes the parser to Ground without a dispatch: no event.            *)
(***************************************************************************)
C31_InvalidCsiIgnored ==
  /\ (Probed(CsiIntermediate) /\ last_chunk[1] \in 48..63)
       => /\ parser.state = CsiIgnore
          /\ last_output = <<>>
  /\ Probed(CsiIgnore)
       => /\ last_output = (IF IsC0(last_chunk[1]) THEN ExecutedEvents(last_chunk[1]) ELSE <<>>)
          /\ parser.state = (IF last_chunk[1] = ESC THEN Escape
                             ELSE IF IsCsiFinal(last_chunk[1]) THEN Ground
                             ELSE CsiIgnore)

\* ESC [ 1 SP, then 1 (a parameter after an intermediate), then A: no event.
C31_Witness ==
  /\ chunks = << <<ESC, 91, 49, 32>>, <<49>>, <<65>> >>
  /\ pre.state = CsiIgnore
  /\ parser.state = Ground
  /\ all_output = <<>>

(***************************************************************************)
(* C32 as stated: in OscString only BEL and ESC end the string; every other *)
(* byte, the C0 controls 0x00, 0x0A, 0x0D and 0x7F among them, leaves the   *)
(* parser in OscString and gives no Osc event.                              *)
(***************************************************************************)
C32_OscTerminators ==
  (Probed(OscString) /\ last_chunk[1] \notin {BEL, ESC})
    => /\ parser.state = OscString
       /\ \A k \in 1..Len(last_output) : last_output[k].type # "Osc"

IsPrivateModeEvent(e) ==
  e.type \in {"SetCursorVisibility", "EnterAltScreen", "ExitAltScreen", "SetMode", "ResetMode"}

(***************************************************************************)
(* C33 as stated: SetCursorVisibility, EnterAltScreen, ExitAltScreen,       *)
(* SetMode(Decckm) and ResetMode(Decckm) are given only by CSI sequences    *)
(* with a ? before the parameters: ESC [ 25 h, ESC [ 1049 h, ESC [ 1 h and  *)
(* the l forms give none of them.                                           *)
(***************************************************************************)
C33_PrivateModesNeedQuestion ==
  (CsiDispatched /\ ~CsiQuestion)
    => \A k \in 1..Len(last_output) : ~IsPrivateModeEvent(last_output[k])

HasDcsEvent(events) == \E k \in 1..Len(events) : events[k].type = "DeviceControlString"

(***************************************************************************)
(* C34 as stated: a DeviceControlString event is given only by a parser in  *)
(* DcsPassthrough (a DCS that went through Hook); in DcsIgnore no byte      *)
(* gives one, and every byte but ESC is ignored: no event, state DcsIgnore. *)
(***************************************************************************)
C34_MalformedDcsSilent ==
  /\ (Len(chunks) >= 2 /\ Len(last_chunk) = 1 /\ HasDcsEvent(last_output))
       => pre.state = DcsPassthrough
  /\ (Probed(DcsIgnore) /\ last_chunk[1] # ESC)
       => /\ parser.state = DcsIgnore
          /\ last_output = <<>>

(***************************************************************************)
(* C35 as stated: whenever the parser is in Escape, intermediates is empty, *)
(* so ESC D gives Newline and ESC M gives CursorUp(1) whatever came before  *)
(* the ESC: a CSI, an OSC, or a DCS with intermediate bytes that the ESC    *)
(* ends.                                                                    *)
(***************************************************************************)
C35_EscDispatchIsolation ==
  /\ parser.state = Escape => parser.intermediates = <<>>
  /\ (Probed(Escape) /\ last_chunk[1] \in {68, 69}) => last_output = <<Newline>>
  /\ (Probed(Escape) /\ last_chunk[1] = 77) => last_output = <<CursorUp(1)>>

(***************************************************************************)
(* SpecIsolation: a parser that has read an earlier sequence, complete,     *)
(* aborted or ignored, then reads ESC [ or ESC P, then the rest of that     *)
(* CSI or DCS sequence.                                                     *)
(***************************************************************************)
LeftoverChunks ==
  { <<>>,
    <<ESC, 91, 51, 49, 109>>,           \* ESC [ 3 1 m, complete
    <<ESC, 91, 49, SEMICOLON, 50>>,     \* ESC [ 1 ; 2, aborted in CsiParam
    <<ESC, 91, 53, 32>>,                \* ESC [ 5 SP, aborted in CsiIntermediate
    <<ESC, 91, 57, 195>>,               \* ESC [ 9 0xC3, aborted in CsiIgnore
    <<ESC, 91, 32, 49, 64>>,            \* ESC [ SP 1 @, ignored
    <<ESC, 40>>,                        \* ESC (, aborted in EscapeIntermediate
    <<ESC, 40, 93>>,                    \* ESC ( ], ignored
    <<ESC, 80, 55, 36, 113, 68>>,       \* ESC P 7 $ q D, aborted in DcsPassthrough
    <<ESC, 80, 55, 36, 113, 68, ESC>>,  \* ESC P 7 $ q D ESC, ended by the ESC
    <<ESC, 80, 36, 49>>,                \* ESC P $ 1, aborted in DcsIgnore
    <<ESC, 80, 36, 49, 64>>,            \* ESC P $ 1 @, ignored
    <<ESC, 93, 48, SEMICOLON, 84>>,     \* ESC ] 0 ; T, aborted in OscString
    <<ESC, 95, 97>> }                   \* ESC _ a, aborted in SosPmApcString

IsolatedBodies ==
  { <<>>, <<53>>, <<SEMICOLON, 50>>, <<50, 53>>, <<51, SEMICOLON, 52, 32>> }

\* m H A h J after ESC [; q x ESC \ after ESC P.
CsiRests == { body \o <<final>> : body \in IsolatedBodies, final \in {109, 72, 65, 104, 74} }

DcsRests == { body \o <<113, 120, ESC, 92>> : body \in IsolatedBodies }

InitIsolation == \E earlier \in LeftoverChunks : InitAfter(earlier)

PushOpener == \E opener \in {91, 80} : Len(chunks) = 1 /\ Push(<<ESC, opener>>)

PushRest ==
  \E rest \in CsiRests \cup DcsRests :
    /\ Len(chunks) = 2
    /\ rest \in (IF chunks[2] = <<ESC, 91>> THEN CsiRests ELSE DcsRests)
    /\ Push(rest)

NextIsolation == PushOpener \/ PushRest

SpecIsolation == InitIsolation /\ [][NextIsolation]_vars

(***************************************************************************)
(* C36: whenever the parser is in CsiEntry or DcsEntry, params,             *)
(* current_param and intermediates are empty; the events of a CSI sequence  *)
(* and the DeviceControlString of a DCS are those a fresh parser gives for  *)
(* the bytes from its ESC [ or ESC P on, whatever sequence came before.     *)
(***************************************************************************)
C36_SequenceIsolation ==
  /\ parser.state \in {CsiEntry, DcsEntry}
       => /\ parser.params = <<>>
          /\ parser.current_param = None
          /\ parser.intermediates = <<>>
  /\ Len(chunks) = 2 => parser.state = (IF last_chunk[2] = 91 THEN CsiEntry ELSE DcsEntry)
  /\ Len(chunks) = 3 => last_output = push(AnsiParserNew, chunks[2] \o chunks[3]).out

\* ESC P 7 $ q D ESC, then ESC P, then 2 5 q x ESC \: the second DCS has the
\* parameter 25 and no intermediates.
C36_Witness ==
  /\ chunks = << <<ESC, 80, 55, 36, 113, 68, ESC>>, <<ESC, 80>>, <<50, 53, 113, 120, ESC, 92>> >>
  /\ Len(last_output) = 1
  /\ last_output[1].type = "DeviceControlString"
  /\ last_output[1].params = <<25>>
  /\ last_output[1].intermediates = <<>>

(***************************************************************************)
(* SpecRuns: a parser, fresh or inside an ESC or CSI sequence, that reads   *)
(* one chunk of up to MaxRunBytes bytes of a, NUL, LF, ESC and c (text, a   *)
(* C0 byte without an event, one with an event, and ESC c, an ESC sequence  *)
(* without an event).                                                       *)
(***************************************************************************)
MaxRunBytes == 4

RunAlphabet == {97, 0, LF, ESC, 99}

RunPrefixes == { <<>>, <<ESC>>, <<ESC, 91>> }

InitRuns == \E prefix \in RunPrefixes : InitAfter(prefix)

NextRuns ==
  \E incoming \in SeqsOfLen(RunAlphabet, 1, MaxRunBytes) : Len(chunks) = 1 /\ Push(incoming)

SpecRuns == InitRuns /\ [][NextRuns]_vars

\* The payloads of the Data events of a list of events, one by one.
RECURSIVE DataPayloads(_)
DataPayloads(events) ==
  IF events = <<>> THEN <<>>
  ELSE IF IsData(Head(events)) THEN <<Head(events).bytes>> \o DataPayloads(Tail(events))
  ELSE DataPayloads(Tail(events))

\* The maximal runs of bytes of `bytes` on which the loop performs Print with
\* no other byte in between; `acts` are the actions performed on `bytes`.
PrintedRuns(acts, bytes) ==
  LET F[k \in 0..Len(bytes)] ==
        IF k = 0 THEN <<>>
        ELSE IF acts[k] # ActPrint THEN F[k - 1]
        ELSE IF k > 1 /\ acts[k - 1] = ActPrint
          THEN [F[k - 1] EXCEPT ![Len(F[k - 1])] = Append(@, bytes[k])]
        ELSE Append(F[k - 1], <<bytes[k]>>)
  IN F[Len(bytes)]

(***************************************************************************)
(* C37 as stated: the output of one push never has two consecutive Data     *)
(* events and never an empty Data event; a byte without an event of its own *)
(* (NUL, an unknown ESC sequence) does not split the text around it.        *)
(***************************************************************************)
C37_NoAdjacentData ==
  Len(chunks) = 2
    => /\ \A k \in 1..Len(last_output) : IsData(last_output[k]) => last_output[k].bytes # <<>>
       /\ \A k \in 1..(Len(last_output) - 1) : ~(IsData(last_output[k]) /\ IsData(last_output[k + 1]))

(***************************************************************************)
(* C37, amended: the output of one push never has an empty Data event, and  *)
(* its Data events are, in order, the maximal runs of bytes printed one     *)
(* right after the other: bytes printed consecutively are never split, and  *)
(* every byte between two printed bytes splits them, with or without an     *)
(* event of its own.                                                        *)
(***************************************************************************)
C37_DataEventsArePrintedRuns ==
  Len(chunks) = 2
    => /\ \A k \in 1..Len(last_output) : IsData(last_output[k]) => last_output[k].bytes # <<>>
       /\ DataPayloads(last_output) = PrintedRuns(Performed(pre, last_chunk, 1), last_chunk)

\* a a NUL a: the NUL gives no event and splits the text.
C37_Witness ==
  /\ chunks = << <<>>, <<97, 97, 0, 97>> >>
  /\ last_output = <<Data(<<97, 97>>), Data(<<97>>)>>

(***************************************************************************)
(* SpecResync: a parser that has read any string of up to MaxResyncPrefix   *)
(* bytes of ESC [ P ] _ 1 SP q and 0xC3 (every one of the fourteen states   *)
(* is reached), and then reads ESC \.                                       *)
(***************************************************************************)
MaxResyncPrefix == 4

ResyncAlphabet == {ESC, 91, 80, 93, 95, 49, 32, 113, 195}

InitResync ==
  \E prefix \in SeqsOfLen(ResyncAlphabet, 0, MaxResyncPrefix) : InitAfter(prefix)

NextResync == Len(chunks) = 1 /\ Push(<<ESC, 92>>)

SpecResync == InitResync /\ [][NextResync]_vars

(***************************************************************************)
(* C38: from every state, ESC \ leaves the parser in Ground with params,    *)
(* current_param and intermediates empty, and gives at most one event: the  *)
(* Osc event of a parser that was in OscString or the DeviceControlString   *)
(* of one that was in DcsPassthrough.                                       *)
(***************************************************************************)
C38_Resynchronisation ==
  (Len(chunks) = 2 /\ last_chunk = <<ESC, 92>>)
    => /\ parser.state = Ground
       /\ parser.params = <<>>
       /\ parser.current_param = None
       /\ parser.intermediates = <<>>
       /\ Len(last_output) <= 1
       /\ last_output # <<>>
            => \/ last_output[1].type = "Osc" /\ pre.state = OscString
               \/ last_output[1].type = "DeviceControlString" /\ pre.state = DcsPassthrough

\* ESC P 1 0xC3 (DcsIgnore), then ESC \: Ground, no event.
C38_Witness ==
  /\ chunks = << <<ESC, 80, 49, 195>>, <<ESC, 92>> >>
  /\ pre.state = DcsIgnore
  /\ parser.state = Ground
  /\ last_output = <<>>

(***************************************************************************)
(* SpecInterrupt: a parser inside an ESC or CSI sequence that reads one C0  *)
(* byte and then the rest of the sequence.                                  *)
(***************************************************************************)
InterruptedPrefixes ==
  { <<ESC>>,                          \* Escape
    <<ESC, 40>>,                      \* EscapeIntermediate: ESC (
    <<ESC, 91>>,                      \* CsiEntry
    <<ESC, 91, 51>>,                  \* CsiParam: ESC [ 3
    <<ESC, 91, 52, SEMICOLON>>,       \* CsiParam: ESC [ 4 ;
    <<ESC, 91, 51, 32>>,              \* CsiIntermediate: ESC [ 3 SP
    <<ESC, 91, 32, 49>>,              \* CsiIgnore: ESC [ SP 1
    <<ESC, 91, 51, 195>> }            \* CsiIgnore: ESC [ 3 0xC3

InterruptingBytes == {0, BEL, BS, LF, FF, CR, DEL}

Completions ==
  { <<49, 109>>, <<109>>, <<65>>, <<68>>, <<77>>, <<66>>, <<72>>, <<SEMICOLON, 53, 72>>,
    <<50, 74>>, <<91, 65>> }

InitInterrupt == \E prefix \in InterruptedPrefixes : InitAfter(prefix)

PushC0 == \E byte \in InterruptingBytes : Len(chunks) = 1 /\ Push(<<byte>>)

PushCompletion == \E rest \in Completions : Len(chunks) = 2 /\ Push(rest)

NextInterrupt == PushC0 \/ PushCompletion

SpecInterrupt == InitInterrupt /\ [][NextInterrupt]_vars

(***************************************************************************)
(* C39: a C0 byte read in Escape, EscapeIntermediate, CsiEntry, CsiParam,   *)
(* CsiIntermediate or CsiIgnore gives its Backspace, Newline or             *)
(* CarriageReturn event, if it has one, and leaves state, params,           *)
(* current_param and intermediates as they were; the sequence then ends     *)
(* with the events it has without the C0 byte.                              *)
(***************************************************************************)
C39_C0InsideSequence ==
  /\ Len(chunks) = 2
       => /\ pre.state \in {Escape, EscapeIntermediate} \cup CsiStates
          /\ last_output = ExecutedEvents(last_chunk[1])
          /\ parser.state = pre.state
          /\ parser.params = pre.params
          /\ parser.current_param = pre.current_param
          /\ parser.intermediates = pre.intermediates
  /\ Len(chunks) = 3
       => last_output = push(push(AnsiParserNew, chunks[1]).p, chunks[3]).out

\* ESC [ 3, then LF, then 1 m: Newline, then Sgr(ForegroundRed).
C39_Witness ==
  /\ chunks = << <<ESC, 91, 51>>, <<LF>>, <<49, 109>> >>
  /\ outputs = << <<>>, <<Newline>>, <<Sgr(<<"ForegroundRed">>)>> >>

(***************************************************************************)
(* The while loop of AnsiParser::parse_sgr once more, keeping what each     *)
(* iteration does with its index: the index i it starts at (0-based, as in  *)
(* the source), the indices of params it reads, and the index it leaves for *)
(* the next iteration.  Each iteration pushes one Sgr event.                *)
(***************************************************************************)
RECURSIVE sgr_trace_unchecked(_, _)
sgr_trace_unchecked(params, i) ==
  IF ~(i < Len(params)) THEN <<>>
  ELSE
    LET len == Len(params)
        extended == params[i + 1] \in {38, 48}
        is8 == i + 2 < len /\ params[i + 2] = 5
        is24 == i + 4 < len /\ params[i + 2] = 2
        reads == {i} \cup (IF extended THEN {i + 1} ELSE {})
                     \cup (IF extended /\ is8 THEN {i + 2} ELSE {})
                     \cup (IF extended /\ ~is8 /\ is24 THEN {i + 2, i + 3, i + 4} ELSE {})
        next == IF ~extended THEN i + 1
                ELSE IF is8 THEN i + 3
                ELSE IF is24 THEN i + 5
                ELSE i + 2
    IN <<[i |-> i, reads |-> reads, next |-> next]>> \o sgr_trace_unchecked(params, next)

RECURSIVE sgr_trace(_, _)
sgr_trace(params, i) ==
  IF ~(i < Len(params)) THEN <<>>
  ELSE
    LET len == Len(params)
        extended == params[i + 1] \in {38, 48}
        is8 == i + 2 < len /\ params[i + 2] = 5
        is24 == i + 4 < len /\ params[i + 2] = 2
        reads == {i} \cup (IF extended /\ i + 2 < len THEN {i + 1} ELSE {})
                     \cup (IF extended /\ is8 THEN {i + 2} ELSE {})
                     \cup (IF extended /\ ~is8 /\ i + 4 < len THEN {i + 1} ELSE {})
                     \cup (IF extended /\ ~is8 /\ is24 THEN {i + 2, i + 3, i + 4} ELSE {})
        next == IF ~extended THEN i + 1
                ELSE IF is8 THEN i + 3
                ELSE IF is24 THEN i + 5
                ELSE i + 2
    IN <<[i |-> i, reads |-> reads, next |-> next]>> \o sgr_trace(params, next)

\* The params parse_sgr walks when the final byte m is dispatched.
DispatchedParams == push_current_param(pre).params

(***************************************************************************)
(* C40: for every parameter list parse_sgr ends, reads params only at       *)
(* indices below its length, moves its index on by at least 1 in each       *)
(* iteration, and gives exactly one Sgr event for an empty list and         *)
(* otherwise between 1 and len(params) Sgr events, one for each iteration.  *)
(***************************************************************************)
C40_SgrWalkerSafety ==
  SgrDispatched =>
    LET params == DispatchedParams
        trace == sgr_trace(params, 0)
    IN /\ \A k \in 1..Len(last_output) : last_output[k].type = "Sgr"
       /\ params = <<>> => last_output = <<Sgr(<<"Reset">>)>>
       /\ params # <<>> => /\ Len(last_output) = Len(trace)
                           /\ 1 <= Len(last_output)
                           /\ Len(last_output) <= Len(params)
       /\ \A k \in 1..Len(trace) :
            /\ trace[k].reads \subseteq 0..(Len(params) - 1)
            /\ trace[k].next >= trace[k].i + 1
            /\ k < Len(trace) => trace[k + 1].i = trace[k].next
       /\ trace # <<>> => trace[Len(trace)].next >= Len(params)

\* ESC [ 1 ; 38 ; 5 m: the walker stops at the cut-off colour without reading
\* beyond the list: Sgr(Bold), Sgr(Unknown(38)).
C40_Witness ==
  /\ SgrDispatched
  /\ DispatchedParams = <<1, 38, 5>>
  /\ Len(sgr_trace(DispatchedParams, 0)) = 2
  /\ sgr_trace(DispatchedParams, 0)[2].reads = {1}
  /\ last_output = <<Sgr(<<"Bold">>), Sgr(SgrUnknown(38))>>
=============================================================================
